---- MODULE Spec2Model ----
(***************************************************************************)
(* Family wishlist server: the in-memory record store (MemStorage), the    *)
(* session table and the route handlers of the HTTP API.                   *)
(*                                                                         *)
(* Spec      every route handler runs to completion before the next one    *)
(*           starts (requests handled one after another).                  *)
(* SpecSession  the auth and family-group routes with several tokens per   *)
(*           user: the session table against the record store.             *)
(* SpecFamily  groups, items and reservations with several tokens per      *)
(*           user: the listings and the activity log.                      *)
(* SpecRace  the reserve handler is split at its awaits, so that several   *)
(*           reserve requests can be in flight at once.                    *)
(* SpecLogout  the create-group and join handlers are split at their       *)
(*           awaits, so that a logout can run while they are in flight.    *)
(* SpecStores  the IStorage operations, applied to MemStorage and to       *)
(*           DatabaseStorage side by side.                                 *)
(* SpecOrder  the listings of the store after creations in the same ms and *)
(*           PUT requests whose body carries a createdAt.                  *)
(* SpecRegister  the register handler is split at its awaits, so that      *)
(*           several register requests can be in flight at once.           *)
(* SpecClient  the auth store of the browser client (login, register,      *)
(*           logout, checkAuth, subscribe) against the auth routes, with   *)
(*           requests and responses in flight.                             *)
(* SpecIds   items created, updated through PUT with any body, deleted.    *)
(***************************************************************************)
EXTENDS Integers, Sequences, FiniteSets, TLC

\* ---------------------------------------------------------------- bounds
\* Spec: the reservation state machine, one request at a time
MaxUsers == 3
MaxGroups == 1
MaxItems == 1
MaxActivities == 2
MaxNotes == 1
\* SpecSession: the session table against the record store
SessUsers == 2
SessTokens == 3
SessGroups == 2
SessActivities == 2
\* SpecFamily: groups, items and reservations with several tokens per user
FamUsers == 2
FamTokens == 3
FamGroups == 2
FamItems == 1
FamActivities == 3
\* SpecRace: reserve requests in flight together
RaceUsers == 3
RaceGroups == 1
RaceItems == 1
RaceActivities == 4
RaceReqs == 2
\* SpecLogout: create-group and join requests in flight while a logout runs
LogoutUsers == 2
LogoutGroups == 2
LogoutActivities == 2
LogoutReqs == 2
\* SpecStores: MemStorage and DatabaseStorage driven by the same operations
StoreUsers == 2
StoreGroups == 1
StoreItems == 2
StoreActivities == 2
StoreNotes == 2
StoreRecords == 4
\* SpecOrder: the listings after same-ms creations and PUT bodies with createdAt
OrderUsers == 2
OrderGroups == 1
OrderItems == 2
OrderActivities == 3
\* SpecRegister: register requests in flight together
RegisterUsers == 3
RegisterReqs == 3
\* SpecClient: calls of the client auth store in flight together
ClientUsers == 2
ClientTokens == 3
ClientReqs == 2
ClientListeners == 2
\* SpecIds: items created, updated through PUT and deleted
IdsUsers == 2
IdsItems == 2

\* null / undefined of an id-valued field; ids start at 1
Null == 0

\* request inputs
NoEmail == ""
Emails == {NoEmail, "a@x.no"}
Passwords == {"pw"}
BadPassword == "bad"
Codes == {"K4J9QZ", "X7M2PA"}
Names == {"Bike", "Book"}

VARIABLES
  users,                  \* MemStorage.users: id -> User
  familyGroups,           \* MemStorage.familyGroups: id -> FamilyGroup
  wishlistItems,          \* MemStorage.wishlistItems: id -> WishlistItem
  activities,             \* MemStorage.activities: id -> Activity
  secretNotes,            \* MemStorage.secretNotes: id -> SecretNote
  currentUserId,
  currentFamilyGroupId,
  currentWishlistItemId,
  currentActivityId,
  currentSecretNoteId,
  now,                    \* the reading of the last new Date(), in ms
  sessions,               \* session table: token -> SessionUser
  nextSession,            \* the next token Math.random() hands out
  changedOn,              \* tokens on which a create-group or join succeeded
  loggedOut,              \* tokens for which a logout request has completed
  resp,                   \* the response on its way to the client, if any
  prevReserve,            \* set while the last request handled was a successful
                          \* reserve: who, which item, its fields before
  reqs,                   \* requests in flight (SpecRace, SpecLogout)
  cap,                    \* how far the specification at hand explores
  db,                     \* the tables behind DatabaseStorage (SpecStores)
  ret,                    \* what the last IStorage operation returned from
                          \* MemStorage and from DatabaseStorage, if the two
                          \* results differ (SpecStores)
  authState,              \* client: authState, user and sessionId
  localStorage,           \* client: localStorage.getItem('sessionId')
  authListeners,          \* client: the array of subscribed listeners
  subs,                   \* client: per listener handed to subscribe, whether
                          \* the function subscribe returned has been called
  heard                   \* client: the listener calls made by the last step,
                          \* in order

storeVars == <<users, familyGroups, wishlistItems, activities, secretNotes,
               currentUserId, currentFamilyGroupId, currentWishlistItemId,
               currentActivityId, currentSecretNoteId, now>>
vars == <<users, familyGroups, wishlistItems, activities, secretNotes,
          currentUserId, currentFamilyGroupId, currentWishlistItemId,
          currentActivityId, currentSecretNoteId, now,
          sessions, nextSession, changedOn, loggedOut, resp, prevReserve,
          reqs, cap, db, ret,
          authState, localStorage, authListeners, subs, heard>>

\* a header value that is no key of the session table (or no header at all)
NoToken == 0
ItemIds == 1..cap.items
UserIds == 1..cap.users

\* no response is on its way: the server is idle
NoResponse == [op |-> "none", tok |-> NoToken, id |-> Null, status |-> 0]

NoReserve == [tok |-> NoToken, id |-> Null, isReserved |-> FALSE,
              reservedByUserId |-> Null]

\* what an IStorage operation returned: a promise that rejected, or the
\* list of the records it resolved to (one record, none for undefined)
Throws == [ok |-> FALSE, value |-> <<>>]
Undefined == [ok |-> TRUE, value |-> <<>>]
NoReturn == [op |-> "none", mem |-> Undefined, db |-> Undefined]

\* DatabaseStorage on empty tables: the rows by primary key, the serial
\* sequences behind the id columns, and the clock behind defaultNow()
DbEmpty ==
  [users |-> <<>>, familyGroups |-> <<>>, wishlistItems |-> <<>>,
   activities |-> <<>>, secretNotes |-> <<>>,
   serial |-> [users |-> 1, familyGroups |-> 1, wishlistItems |-> 1,
               activities |-> 1, secretNotes |-> 1],
   now |-> 0]

sqlVars == <<db, ret>>

clientVars == <<authState, localStorage, authListeners, subs, heard>>

\* ------------------------------------------------------------ MemStorage
EmptyStore ==
  /\ users = <<>>
  /\ familyGroups = <<>>
  /\ wishlistItems = <<>>
  /\ activities = <<>>
  /\ secretNotes = <<>>
  /\ currentUserId = 1
  /\ currentFamilyGroupId = 1
  /\ currentWishlistItemId = 1
  /\ currentActivityId = 1
  /\ currentSecretNoteId = 1
  /\ now = 0
  /\ sessions = <<>>
  /\ nextSession = 1
  /\ changedOn = {}
  /\ loggedOut = {}
  /\ resp = NoResponse
  /\ prevReserve = NoReserve
  /\ reqs = <<>>
  /\ db = DbEmpty
  /\ ret = NoReturn
  /\ authState = [user |-> Null, sessionId |-> NoToken]
  /\ localStorage = NoToken
  /\ authListeners = <<>>
  /\ subs = <<>>
  /\ heard = <<>>

Init ==
  /\ EmptyStore
  /\ cap = [users |-> MaxUsers, tokens |-> MaxUsers, groups |-> MaxGroups,
            items |-> MaxItems, activities |-> MaxActivities,
            notes |-> MaxNotes, reqs |-> 0, sameMs |-> FALSE,
            records |-> 0, listeners |-> 0]

\* Map.set(k, v): the key is added or its value replaced
MapSet(m, k, v) == [x \in DOMAIN m \cup {k} |-> IF x = k THEN v ELSE m[x]]
\* Map.delete(k)
MapDelete(m, k) == [x \in DOMAIN m \ {k} |-> m[x]]

Min(S) == CHOOSE x \in S : \A y \in S : x <= y

\* Array.from(map.values()) restricted to a set of keys: a Map iterates in
\* insertion order, and ids are handed out in increasing order
InOrder(S) ==
  [i \in 1..Cardinality(S) |-> CHOOSE x \in S : Cardinality({y \in S : y < x}) = i - 1]

Range(q) == {q[i] : i \in DOMAIN q}

\* .sort((a, b) => b.createdAt - a.createdAt) on the records of m under keys:
\* newest first, and since the sort is stable, records of the same ms stay
\* in insertion order
NewestFirst(m, keys) ==
  LET Before(a, b) == \/ m[a].createdAt > m[b].createdAt
                      \/ m[a].createdAt = m[b].createdAt /\ a < b
  IN [i \in 1..Cardinality(keys) |->
        m[CHOOSE k \in keys : Cardinality({j \in keys : Before(j, k)}) = i - 1]]

\* the id of the first user (in insertion order) with this email, or Null
getUserByEmail(email) ==
  LET hits == {u \in DOMAIN users : users[u].email = email}
  IN IF hits = {} THEN Null ELSE Min(hits)

createUser(id, email, password) ==
  MapSet(users, id, [id |-> id, email |-> email, password |-> password,
                     familyGroupId |-> Null])

\* mutant: the update also blanks the password of the user
updateUserFamilyGroup_BlanksPassword(userId, familyGroupId) ==
  IF userId \notin DOMAIN users THEN users
  ELSE MapSet(users, userId, [users[userId] EXCEPT !.familyGroupId = familyGroupId,
                                                   !.password = ""])

updateUserFamilyGroup(userId, familyGroupId) ==
  IF userId \notin DOMAIN users THEN users
  ELSE MapSet(users, userId, [users[userId] EXCEPT !.familyGroupId = familyGroupId])

\* mutant: the invite code is not compared, the first group is returned
getFamilyGroupByInviteCode_AnyGroup(inviteCode) ==
  IF DOMAIN familyGroups = {} THEN Null ELSE Min(DOMAIN familyGroups)

\* the id of the first group (in insertion order) with this code, or Null
getFamilyGroupByInviteCode(inviteCode) ==
  LET hits == {g \in DOMAIN familyGroups : familyGroups[g].inviteCode = inviteCode}
  IN IF hits = {} THEN Null ELSE Min(hits)

createFamilyGroup(id, inviteCode) ==
  MapSet(familyGroups, id, [id |-> id, inviteCode |-> inviteCode])

\* the group with this id, or Null
getFamilyGroup(id) == IF id \in DOMAIN familyGroups THEN id ELSE Null

\* the users whose familyGroupId is this group's id, in insertion order
getFamilyMembers(familyGroupId) ==
  InOrder({u \in DOMAIN users : users[u].familyGroupId = familyGroupId})

\* the items of this user, newest first
getWishlistItems(userId) ==
  NewestFirst(wishlistItems,
              {k \in DOMAIN wishlistItems : wishlistItems[k].userId = userId})

createWishlistItem(id, userId, name, createdAt) ==
  MapSet(wishlistItems, id,
         [id |-> id, userId |-> userId, name |-> name,
          isReserved |-> FALSE, reservedByUserId |-> Null,
          createdAt |-> createdAt])

\* { ...item, ...updates }: every key of updates overrides the item's
Merge(item, updates) ==
  [f \in DOMAIN item |-> IF f \in DOMAIN updates THEN updates[f] ELSE item[f]]

updateWishlistItem(id, updates) ==
  IF id \notin DOMAIN wishlistItems THEN wishlistItems
  ELSE MapSet(wishlistItems, id, Merge(wishlistItems[id], updates))

deleteWishlistItem(id) == MapDelete(wishlistItems, id)

\* mutant: a conditional write, the first reserver keeps the item
reserveWishlistItem_FirstWins(id, reservedByUserId) ==
  IF id \notin DOMAIN wishlistItems \/ wishlistItems[id].isReserved
  THEN wishlistItems
  ELSE MapSet(wishlistItems, id,
              [wishlistItems[id] EXCEPT !.isReserved = TRUE,
                                        !.reservedByUserId = reservedByUserId])

\* mutant: a missing item is created by the reservation
reserveWishlistItem_Upsert(id, reservedByUserId) ==
  MapSet(wishlistItems, id,
         IF id \in DOMAIN wishlistItems
         THEN [wishlistItems[id] EXCEPT !.isReserved = TRUE,
                                        !.reservedByUserId = reservedByUserId]
         ELSE [id |-> id, userId |-> Null, name |-> "", isReserved |-> TRUE,
               reservedByUserId |-> reservedByUserId, createdAt |-> Null])

reserveWishlistItem(id, reservedByUserId) ==
  IF id \notin DOMAIN wishlistItems THEN wishlistItems
  ELSE MapSet(wishlistItems, id,
              [wishlistItems[id] EXCEPT !.isReserved = TRUE,
                                        !.reservedByUserId = reservedByUserId])

unreserveWishlistItem(id) ==
  IF id \notin DOMAIN wishlistItems THEN wishlistItems
  ELSE MapSet(wishlistItems, id,
              [wishlistItems[id] EXCEPT !.isReserved = FALSE,
                                        !.reservedByUserId = Null])

createActivity(id, userId, familyGroupId, action, targetUserId, createdAt) ==
  MapSet(activities, id,
         [id |-> id, userId |-> userId, familyGroupId |-> familyGroupId,
          action |-> action, targetUserId |-> targetUserId,
          createdAt |-> createdAt])

createSecretNote(id, userId, wishlistItemId) ==
  MapSet(secretNotes, id,
         [id |-> id, userId |-> userId, wishlistItemId |-> wishlistItemId])

\* .slice(0, limit)
Take(q, limit) == SubSeq(q, 1, IF limit < Len(q) THEN limit ELSE Len(q))

\* the activities of this group, newest first, at most limit of them
getFamilyActivities(familyGroupId, limit) ==
  Take(NewestFirst(activities,
                   {k \in DOMAIN activities :
                      activities[k].familyGroupId = familyGroupId}),
       limit)

\* the records of m under a list of keys
Records(m, keys) == [i \in DOMAIN keys |-> m[keys[i]]]

\* the notes on this item written by this user, in insertion order
getSecretNotes(wishlistItemId, userId) ==
  Records(secretNotes,
          InOrder({k \in DOMAIN secretNotes :
                     /\ secretNotes[k].wishlistItemId = wishlistItemId
                     /\ secretNotes[k].userId = userId}))

\* ------------------------------------------------------- DatabaseStorage
\* a record as its caller sees it; createdAt is left out, since the two
\* stores never read the same clock
Shown(record) == [f \in DOMAIN record \ {"createdAt"} |-> record[f]]
Returned(record) == [ok |-> TRUE, value |-> <<Shown(record)>>]
Listed(records) == [ok |-> TRUE, value |-> [i \in DOMAIN records |-> Shown(records[i])]]
Answered(b) == [ok |-> TRUE, value |-> <<b>>]

\* the orders in which a SELECT without ORDER BY can return a set of rows
Perms(S) ==
  {q \in [1..Cardinality(S) -> S] : \A i, j \in DOMAIN q : q[i] = q[j] => i = j}

\* the orders admitted by ORDER BY created_at DESC
PermsNewestFirst(table, S) ==
  {q \in Perms(S) :
     \A i, j \in DOMAIN q : i < j => table[q[i]].createdAt >= table[q[j]].createdAt}

\* INSERT .. RETURNING: the row gets the next value of the serial sequence
DbInsert(d, table, row) ==
  [d EXCEPT ![table] = MapSet(@, d.serial[table], row),
            !.serial[table] = @ + 1]

\* an INSERT refused by a unique constraint: the statement fails, and the
\* value it drew from the serial sequence is not given back
DbInsertFails(d, table) == [d EXCEPT !.serial[table] = @ + 1]

\* UPDATE .. WHERE id = .. RETURNING
DbUpdate(d, table, id, row) == [d EXCEPT ![table] = MapSet(@, id, row)]

\* each operation yields the outcomes it can have: the tables afterwards and
\* what the caller gets
DatabaseStorage_getUserByEmail(email) ==
  LET hits == {u \in DOMAIN db.users : db.users[u].email = email} IN
    IF hits = {} THEN {[db |-> db, result |-> Undefined]}
    ELSE {[db |-> db, result |-> Returned(db.users[u])] : u \in hits}

\* users.email is unique
DatabaseStorage_createUser(email, password) ==
  IF \E u \in DOMAIN db.users : db.users[u].email = email
  THEN {[db |-> DbInsertFails(db, "users"), result |-> Throws]}
  ELSE LET row == [id |-> db.serial.users, email |-> email,
                   password |-> password, familyGroupId |-> Null]
       IN {[db |-> DbInsert(db, "users", row), result |-> Returned(row)]}

DatabaseStorage_updateUserFamilyGroup(userId, familyGroupId) ==
  IF userId \notin DOMAIN db.users THEN {[db |-> db, result |-> Undefined]}
  ELSE LET row == [db.users[userId] EXCEPT !.familyGroupId = familyGroupId]
       IN {[db |-> DbUpdate(db, "users", userId, row), result |-> Returned(row)]}

DatabaseStorage_getFamilyGroupByInviteCode(inviteCode) ==
  LET hits == {g \in DOMAIN db.familyGroups :
                 db.familyGroups[g].inviteCode = inviteCode} IN
    IF hits = {} THEN {[db |-> db, result |-> Undefined]}
    ELSE {[db |-> db, result |-> Returned(db.familyGroups[g])] : g \in hits}

\* family_groups.invite_code is unique
DatabaseStorage_createFamilyGroup(inviteCode) ==
  IF \E g \in DOMAIN db.familyGroups : db.familyGroups[g].inviteCode = inviteCode
  THEN {[db |-> DbInsertFails(db, "familyGroups"), result |-> Throws]}
  ELSE LET row == [id |-> db.serial.familyGroups, inviteCode |-> inviteCode]
       IN {[db |-> DbInsert(db, "familyGroups", row), result |-> Returned(row)]}

DatabaseStorage_getFamilyMembers(familyGroupId) ==
  {[db |-> db, result |-> Listed(Records(db.users, q))] :
     q \in Perms({u \in DOMAIN db.users :
                    db.users[u].familyGroupId = familyGroupId})}

DatabaseStorage_getWishlistItems(userId) ==
  {[db |-> db, result |-> Listed(Records(db.wishlistItems, q))] :
     q \in PermsNewestFirst(db.wishlistItems,
                            {k \in DOMAIN db.wishlistItems :
                               db.wishlistItems[k].userId = userId})}

\* created_at defaults to now(), which has advanced since the last statement
DatabaseStorage_createWishlistItem(userId, name) ==
  LET row == [id |-> db.serial.wishlistItems, userId |-> userId, name |-> name,
              isReserved |-> FALSE, reservedByUserId |-> Null,
              createdAt |-> db.now + 1]
  IN {[db |-> [DbInsert(db, "wishlistItems", row) EXCEPT !.now = @ + 1],
       result |-> Returned(row)]}

DatabaseStorage_deleteWishlistItem(id) ==
  {[db |-> [db EXCEPT !.wishlistItems = MapDelete(@, id)],
    result |-> Answered(id \in DOMAIN db.wishlistItems)]}

DatabaseStorage_reserveWishlistItem(id, reservedByUserId) ==
  IF id \notin DOMAIN db.wishlistItems THEN {[db |-> db, result |-> Undefined]}
  ELSE LET row == [db.wishlistItems[id] EXCEPT !.isReserved = TRUE,
                                               !.reservedByUserId = reservedByUserId]
       IN {[db |-> DbUpdate(db, "wishlistItems", id, row), result |-> Returned(row)]}

DatabaseStorage_unreserveWishlistItem(id) ==
  IF id \notin DOMAIN db.wishlistItems THEN {[db |-> db, result |-> Undefined]}
  ELSE LET row == [db.wishlistItems[id] EXCEPT !.isReserved = FALSE,
                                               !.reservedByUserId = Null]
       IN {[db |-> DbUpdate(db, "wishlistItems", id, row), result |-> Returned(row)]}

DatabaseStorage_createActivity(userId, familyGroupId, action, targetUserId) ==
  LET row == [id |-> db.serial.activities, userId |-> userId,
              familyGroupId |-> familyGroupId, action |-> action,
              targetUserId |-> targetUserId, createdAt |-> db.now + 1]
  IN {[db |-> [DbInsert(db, "activities", row) EXCEPT !.now = @ + 1],
       result |-> Returned(row)]}

DatabaseStorage_getFamilyActivities(familyGroupId, limit) ==
  {[db |-> db, result |-> Listed(Take(Records(db.activities, q), limit))] :
     q \in PermsNewestFirst(db.activities,
                            {k \in DOMAIN db.activities :
                               db.activities[k].familyGroupId = familyGroupId})}

DatabaseStorage_createSecretNote(userId, wishlistItemId) ==
  LET row == [id |-> db.serial.secretNotes, userId |-> userId,
              wishlistItemId |-> wishlistItemId]
  IN {[db |-> DbInsert(db, "secretNotes", row), result |-> Returned(row)]}

\* the WHERE clause names the item only
DatabaseStorage_getSecretNotes(wishlistItemId, userId) ==
  {[db |-> db, result |-> Listed(Records(db.secretNotes, q))] :
     q \in Perms({k \in DOMAIN db.secretNotes :
                    db.secretNotes[k].wishlistItemId = wishlistItemId})}

\* --------------------------------------------------------- session table
userVars == <<users, currentUserId>>
groupVars == <<familyGroups, currentFamilyGroupId>>
itemVars == <<wishlistItems, currentWishlistItemId>>
actVars == <<activities, currentActivityId>>
noteVars == <<secretNotes, currentSecretNoteId>>
sessVars == <<sessions, nextSession, changedOn, loggedOut>>

\* sessionMiddleware + requireAuth: req.user is set iff the token is a key
IsAuthenticated(tok) == tok \in DOMAIN sessions

\* the SessionUser snapshot taken at register and login
SessionUser(userId) == [id |-> userId, familyGroupId |-> users[userId].familyGroupId]

\* req.user.familyGroupId = group.id; sessions.set(sessionId, req.user)
UpdateSession(tok, groupId) ==
  MapSet(sessions, tok, [sessions[tok] EXCEPT !.familyGroupId = groupId])

\* GET /api/auth/me: the body sent for an authenticated request
authMe(tok) == sessions[tok]

\* res.status(status).json(...): a handler runs when no response is pending
Respond(op, tok, id, status) ==
  /\ resp = NoResponse
  /\ resp' = [op |-> op, tok |-> tok, id |-> id, status |-> status]
  /\ prevReserve' =
       IF op = "reserve" /\ status = 200
       THEN [tok |-> tok, id |-> id,
             isReserved |-> wishlistItems[id].isReserved,
             reservedByUserId |-> wishlistItems[id].reservedByUserId]
       ELSE NoReserve

\* the client takes the response; the next request can be handled
Deliver ==
  /\ resp # NoResponse
  /\ resp' = NoResponse
  /\ UNCHANGED <<storeVars, sessVars, prevReserve, reqs, cap, sqlVars, clientVars>>

\* mutant: requireAuth lets the anonymous request through with a 200
Reject_AnonymousOk(op, tok, id, status) ==
  /\ Respond(op, tok, id, IF status = 401 THEN 200 ELSE status)
  /\ UNCHANGED <<storeVars, sessVars>>

\* an early return: a response and no write
Reject(op, tok, id, status) ==
  /\ Respond(op, tok, id, status)
  /\ UNCHANGED <<storeVars, sessVars>>

\* the ms that can pass between two readings of the clock: two records
\* created in the same ms carry the same createdAt
Elapsed == IF cap.sameMs THEN {0, 1} ELSE {1}

\* storage.createActivity from a handler whose last clock reading was since;
\* the log holds cap.activities records
LogActivityAfter(since, userId, familyGroupId, action, targetUserId) ==
  /\ currentActivityId <= cap.activities
  /\ \E d \in Elapsed :
       /\ now' = since + d
       /\ activities' = createActivity(currentActivityId, userId, familyGroupId,
                                       action, targetUserId, since + d)
  /\ currentActivityId' = currentActivityId + 1

LogActivity(userId, familyGroupId, action, targetUserId) ==
  LogActivityAfter(now, userId, familyGroupId, action, targetUserId)

\* ------------------------------------------------------------ auth routes
Register(email, password) ==
  /\ currentUserId <= cap.users
  /\ nextSession <= cap.tokens
  /\ UNCHANGED <<reqs, cap, sqlVars, clientVars>>
  /\ IF email # "" /\ getUserByEmail(email) # Null
     THEN Reject("register", NoToken, Null, 400)
     ELSE /\ users' = createUser(currentUserId, email, password)
          /\ currentUserId' = currentUserId + 1
          /\ sessions' = MapSet(sessions, nextSession,
                                [id |-> currentUserId, familyGroupId |-> Null])
          /\ nextSession' = nextSession + 1
          /\ Respond("register", nextSession, Null, 200)
          /\ UNCHANGED <<groupVars, itemVars, actVars, noteVars, now, changedOn,
                         loggedOut>>

Login(email, password) ==
  /\ nextSession <= cap.tokens
  /\ UNCHANGED <<reqs, cap, sqlVars, clientVars>>
  /\ IF email = "" THEN Reject("login", NoToken, Null, 400)
     ELSE LET user == getUserByEmail(email) IN
       IF user = Null \/ users[user].password # password
       THEN Reject("login", NoToken, Null, 401)
       ELSE /\ sessions' = MapSet(sessions, nextSession, SessionUser(user))
            /\ nextSession' = nextSession + 1
            /\ Respond("login", nextSession, Null, 200)
            /\ UNCHANGED <<storeVars, changedOn, loggedOut>>

Logout(tok) ==
  /\ UNCHANGED <<reqs, cap, sqlVars, clientVars>>
  /\ IF ~IsAuthenticated(tok) THEN Reject("logout", tok, Null, 401)
     ELSE /\ sessions' = MapDelete(sessions, tok)
          /\ loggedOut' = loggedOut \cup {tok}
          /\ Respond("logout", tok, Null, 200)
          /\ UNCHANGED <<storeVars, nextSession, changedOn>>

\* ---------------------------------------------------- family group routes
CreateGroup(tok, inviteCode) ==
  /\ UNCHANGED <<reqs, cap, sqlVars, clientVars>>
  /\ IF ~IsAuthenticated(tok) THEN Reject("createGroup", tok, Null, 401)
     ELSE LET group == currentFamilyGroupId IN
          /\ currentFamilyGroupId <= cap.groups
          /\ familyGroups' = createFamilyGroup(group, inviteCode)
          /\ currentFamilyGroupId' = currentFamilyGroupId + 1
          /\ users' = updateUserFamilyGroup(sessions[tok].id, group)
          /\ sessions' = UpdateSession(tok, group)
          /\ changedOn' = changedOn \cup {tok}
          /\ LogActivity(sessions[tok].id, group, "created_group", Null)
          /\ Respond("createGroup", tok, group, 200)
          /\ UNCHANGED <<currentUserId, itemVars, noteVars, nextSession, loggedOut>>

JoinGroup(tok, inviteCode) ==
  /\ UNCHANGED <<reqs, cap, sqlVars, clientVars>>
  /\ IF ~IsAuthenticated(tok) THEN Reject("joinGroup", tok, Null, 401)
     ELSE LET group == getFamilyGroupByInviteCode(inviteCode) IN
       IF group = Null THEN Reject("joinGroup", tok, Null, 404)
       ELSE /\ users' = updateUserFamilyGroup(sessions[tok].id, group)
            /\ sessions' = UpdateSession(tok, group)
            /\ changedOn' = changedOn \cup {tok}
            /\ LogActivity(sessions[tok].id, group, "joined_group", Null)
            /\ Respond("joinGroup", tok, group, 200)
            /\ UNCHANGED <<currentUserId, groupVars, itemVars, noteVars,
                           nextSession, loggedOut>>

\* GET /api/family-groups/current: the status and the body sent
NoGroupBody == [status |-> 404, group |-> Null, members |-> <<>>]

familyGroupsCurrent(tok) ==
  IF ~IsAuthenticated(tok) THEN [NoGroupBody EXCEPT !.status = 401]
  ELSE IF sessions[tok].familyGroupId = Null THEN NoGroupBody
  ELSE LET group == getFamilyGroup(sessions[tok].familyGroupId) IN
    IF group = Null THEN NoGroupBody
    ELSE [status |-> 200, group |-> group, members |-> getFamilyMembers(group)]

\* ---------------------------------------------------------- wishlist routes
\* request bodies of PUT /api/wishlist-items/:id: req.body is passed to the
\* store as it arrives, so any key of a WishlistItem may occur in it
Bodies ==
  {[name |-> n] : n \in Names}
    \cup {[isReserved |-> b] : b \in BOOLEAN}
    \cup {[reservedByUserId |-> u] : u \in {Null} \cup UserIds}
    \cup {[userId |-> u] : u \in UserIds}
    \cup {[id |-> k] : k \in ItemIds}

\* { ...item, canEdit }
WithCanEdit(item, canEdit) ==
  [f \in DOMAIN item \cup {"canEdit"} |->
     IF f = "canEdit" THEN canEdit ELSE item[f]]

\* canEdit: item.userId === req.user.id
CanEdit(item, userId) == item.userId = userId

\* GET /api/wishlists/family: the status and the body sent, one entry per
\* member of the group of the requester's session
familyWishlists(tok) ==
  IF ~IsAuthenticated(tok) THEN [status |-> 401, body |-> <<>>]
  ELSE IF sessions[tok].familyGroupId = Null THEN [status |-> 404, body |-> <<>>]
  ELSE LET members == getFamilyMembers(sessions[tok].familyGroupId)
           Entry(member) ==
             LET items == getWishlistItems(member) IN
               [user |-> member,
                items |-> [j \in DOMAIN items |->
                             WithCanEdit(items[j], CanEdit(items[j], sessions[tok].id))]]
       IN [status |-> 200, body |-> [i \in DOMAIN members |-> Entry(members[i])]]

\* mutant: the ownership check left out
OwnerStatus_NoCheck(existingItem, userId) == 200

\* "Check ownership" of PUT and DELETE
OwnerStatus(existingItem, userId) ==
  IF existingItem.userId # userId THEN 403 ELSE 200

\* mutant: the "already reserved" check left out
ReserveStatus_NoConflictCheck(existingItem, userId) ==
  IF existingItem.userId = userId THEN 400 ELSE 200

\* the checks of POST /api/wishlist-items/:id/reserve on the item it read
ReserveStatus(existingItem, userId) ==
  IF existingItem.userId = userId THEN 400
  ELSE IF existingItem.isReserved THEN 400
  ELSE 200

\* mutant: any user may lift a reservation
UnreserveStatus_AnyUser(existingItem, userId) ==
  IF ~existingItem.isReserved THEN 400 ELSE 200

\* the check of POST /api/wishlist-items/:id/unreserve on the item it read
UnreserveStatus(existingItem, userId) ==
  IF ~existingItem.isReserved \/ existingItem.reservedByUserId # userId
  THEN 400 ELSE 200

\* the check of POST /api/secret-notes on the item it read
NoteStatus(item, userId) ==
  IF item.userId = userId THEN 400 ELSE 200

CreateItem(tok, name) ==
  /\ UNCHANGED <<reqs, cap, sqlVars, clientVars>>
  /\ IF ~IsAuthenticated(tok) THEN Reject("createItem", tok, Null, 401)
     ELSE LET user == sessions[tok] IN
          /\ currentWishlistItemId <= cap.items
          /\ \E d \in Elapsed :
               /\ wishlistItems' = createWishlistItem(currentWishlistItemId,
                                                      user.id, name, now + d)
               /\ IF user.familyGroupId # Null
                  THEN LogActivityAfter(now + d, user.id, user.familyGroupId,
                                        "added_item", Null)
                  ELSE now' = now + d /\ UNCHANGED actVars
          /\ currentWishlistItemId' = currentWishlistItemId + 1
          /\ Respond("createItem", tok, currentWishlistItemId, 200)
          /\ UNCHANGED <<userVars, groupVars, noteVars, sessVars>>

PutItem(tok, id, updates) ==
  /\ UNCHANGED <<reqs, cap, sqlVars, clientVars>>
  /\ IF ~IsAuthenticated(tok) THEN Reject("put", tok, id, 401)
     ELSE IF id \notin DOMAIN wishlistItems THEN Reject("put", tok, id, 404)
     ELSE LET status == OwnerStatus(wishlistItems[id], sessions[tok].id) IN
       IF status # 200 THEN Reject("put", tok, id, status)
       ELSE /\ wishlistItems' = updateWishlistItem(id, updates)
            /\ Respond("put", tok, id, 200)
            /\ UNCHANGED <<userVars, groupVars, currentWishlistItemId,
                           actVars, noteVars, now, sessVars>>

DeleteItem(tok, id) ==
  /\ UNCHANGED <<reqs, cap, sqlVars, clientVars>>
  /\ IF ~IsAuthenticated(tok) THEN Reject("delete", tok, id, 401)
     ELSE IF id \notin DOMAIN wishlistItems THEN Reject("delete", tok, id, 404)
     ELSE LET status == OwnerStatus(wishlistItems[id], sessions[tok].id) IN
       IF status # 200 THEN Reject("delete", tok, id, status)
       ELSE /\ wishlistItems' = deleteWishlistItem(id)
            /\ Respond("delete", tok, id, 200)
            /\ UNCHANGED <<userVars, groupVars, currentWishlistItemId,
                           actVars, noteVars, now, sessVars>>

Reserve(tok, id) ==
  /\ UNCHANGED <<reqs, cap, sqlVars, clientVars>>
  /\ IF ~IsAuthenticated(tok) THEN Reject("reserve", tok, id, 401)
     ELSE IF id \notin DOMAIN wishlistItems THEN Reject("reserve", tok, id, 404)
     ELSE LET user == sessions[tok]
              existingItem == wishlistItems[id]
              status == ReserveStatus(existingItem, user.id) IN
       IF status # 200 THEN Reject("reserve", tok, id, status)
       ELSE /\ wishlistItems' = reserveWishlistItem(id, user.id)
            /\ IF user.familyGroupId # Null
               THEN LogActivity(user.id, user.familyGroupId, "reserved_item",
                                existingItem.userId)
               ELSE UNCHANGED <<actVars, now>>
            /\ Respond("reserve", tok, id, 200)
            /\ UNCHANGED <<userVars, groupVars, currentWishlistItemId,
                           noteVars, sessVars>>

Unreserve(tok, id) ==
  /\ UNCHANGED <<reqs, cap, sqlVars, clientVars>>
  /\ IF ~IsAuthenticated(tok) THEN Reject("unreserve", tok, id, 401)
     ELSE IF id \notin DOMAIN wishlistItems THEN Reject("unreserve", tok, id, 404)
     ELSE LET status == UnreserveStatus(wishlistItems[id], sessions[tok].id) IN
       IF status # 200 THEN Reject("unreserve", tok, id, status)
       ELSE /\ wishlistItems' = unreserveWishlistItem(id)
            /\ Respond("unreserve", tok, id, 200)
            /\ UNCHANGED <<userVars, groupVars, currentWishlistItemId,
                           actVars, noteVars, now, sessVars>>

\* ------------------------------------------------------- secret-note route
CreateNote(tok, wishlistItemId) ==
  /\ UNCHANGED <<reqs, cap, sqlVars, clientVars>>
  /\ IF ~IsAuthenticated(tok) THEN Reject("note", tok, wishlistItemId, 401)
     ELSE IF wishlistItemId \notin DOMAIN wishlistItems
       THEN Reject("note", tok, wishlistItemId, 404)
     ELSE LET status == NoteStatus(wishlistItems[wishlistItemId], sessions[tok].id) IN
       IF status # 200 THEN Reject("note", tok, wishlistItemId, status)
       ELSE /\ currentSecretNoteId <= cap.notes
            /\ secretNotes' = createSecretNote(currentSecretNoteId,
                                               sessions[tok].id, wishlistItemId)
            /\ currentSecretNoteId' = currentSecretNoteId + 1
            /\ Respond("note", tok, wishlistItemId, 200)
            /\ UNCHANGED <<userVars, groupVars, itemVars, actVars, now, sessVars>>

\* ------------------------------------------------------------------ Spec
\* the tokens a client can present: every token handed out so far, or none
Presented == 0..(nextSession - 1)

Next ==
  \/ \E p \in Passwords : Register(NoEmail, p)
  \/ \E t \in Presented : CreateGroup(t, "K4J9QZ")
  \/ \E t \in Presented : JoinGroup(t, "K4J9QZ")
  \/ \E t \in Presented, n \in Names : CreateItem(t, n)
  \/ \E t \in Presented, i \in ItemIds, b \in Bodies : PutItem(t, i, b)
  \/ \E t \in Presented, i \in ItemIds : DeleteItem(t, i)
  \/ \E t \in Presented, i \in ItemIds : Reserve(t, i)
  \/ \E t \in Presented, i \in ItemIds : Unreserve(t, i)
  \/ \E t \in Presented, i \in ItemIds : CreateNote(t, i)
  \/ Deliver

Spec == Init /\ [][Next]_vars

\* ----------------------------------------------------------- SpecSession
SessInit ==
  /\ EmptyStore
  /\ cap = [users |-> SessUsers, tokens |-> SessTokens, groups |-> SessGroups,
            items |-> 0, activities |-> SessActivities, notes |-> 0,
            reqs |-> 0, sameMs |-> FALSE,
            records |-> 0, listeners |-> 0]

SessNext ==
  \/ \E e \in Emails, p \in Passwords : Register(e, p)
  \/ \E e \in Emails, p \in Passwords \cup {BadPassword} : Login(e, p)
  \/ \E t \in Presented : Logout(t)
  \/ \E t \in Presented, c \in Codes : CreateGroup(t, c)
  \/ \E t \in Presented, c \in Codes : JoinGroup(t, c)
  \/ Deliver

SpecSession == SessInit /\ [][SessNext]_vars

\* ------------------------------------------------------------ SpecFamily
FamInit ==
  /\ EmptyStore
  /\ cap = [users |-> FamUsers, tokens |-> FamTokens, groups |-> FamGroups,
            items |-> FamItems, activities |-> FamActivities, notes |-> 0,
            reqs |-> 0, sameMs |-> FALSE,
            records |-> 0, listeners |-> 0]

FamNext ==
  \/ \E e \in Emails, p \in Passwords : Register(e, p)
  \/ \E e \in Emails, p \in Passwords : Login(e, p)
  \/ \E t \in Presented, c \in Codes : CreateGroup(t, c)
  \/ \E t \in Presented, c \in Codes : JoinGroup(t, c)
  \/ \E t \in Presented : CreateItem(t, "Bike")
  \/ \E t \in Presented, i \in ItemIds : Reserve(t, i)
  \/ \E t \in Presented, i \in ItemIds : Unreserve(t, i)
  \/ Deliver

SpecFamily == FamInit /\ [][FamNext]_vars

\* -------------------------------------------------------------- SpecRace
\* POST /api/wishlist-items/:id/reserve, one action per stretch of the
\* handler between two awaits.  A request in flight is a record of reqs:
\*   pc            where the handler stands: "read" (awaiting getWishlistItem),
\*                 "written" (awaiting reserveWishlistItem), "logged" (awaiting
\*                 createActivity), "done" (response sent)
\*   existingItem  <<item>> as getWishlistItem returned it, <<>> for undefined
\*   writeNo       the rank of its reserveWishlistItem call among those made
\*   activityId    the id of the activity it created, or Null
reqFrame == <<sessVars, resp, prevReserve, cap, sqlVars, clientVars>>

SetReq(r, fields) ==
  reqs' = [reqs EXCEPT ![r] = Merge(reqs[r], fields)]

Writes == Cardinality({r \in DOMAIN reqs : reqs[r].writeNo # 0})

\* requireAuth, then existingItem = await storage.getWishlistItem(id)
ReserveStart(tok, id) ==
  /\ Len(reqs) < cap.reqs
  /\ reqs' = Append(reqs,
       [tok |-> tok, id |-> id,
        pc |-> IF IsAuthenticated(tok) THEN "read" ELSE "done",
        status |-> IF IsAuthenticated(tok) THEN 0 ELSE 401,
        existingItem |-> IF IsAuthenticated(tok) /\ id \in DOMAIN wishlistItems
                         THEN <<wishlistItems[id]>> ELSE <<>>,
        writeNo |-> 0, activityId |-> Null])
  /\ UNCHANGED <<storeVars, reqFrame>>

\* the checks on existingItem, then item = await storage.reserveWishlistItem(..)
ReserveWrite(r) ==
  /\ reqs[r].pc = "read"
  /\ LET user == sessions[reqs[r].tok] IN
     IF reqs[r].existingItem = <<>>
     THEN /\ SetReq(r, [pc |-> "done", status |-> 404])
          /\ UNCHANGED <<storeVars, reqFrame>>
     ELSE LET status == ReserveStatus(reqs[r].existingItem[1], user.id) IN
       IF status # 200
       THEN /\ SetReq(r, [pc |-> "done", status |-> status])
            /\ UNCHANGED <<storeVars, reqFrame>>
       ELSE /\ wishlistItems' = reserveWishlistItem(reqs[r].id, user.id)
            /\ SetReq(r, [pc |-> "written", writeNo |-> Writes + 1])
            /\ UNCHANGED <<userVars, groupVars, currentWishlistItemId,
                           actVars, noteVars, now, reqFrame>>

\* if (req.user.familyGroupId) await storage.createActivity(..)
ReserveLog(r) ==
  /\ reqs[r].pc = "written"
  /\ LET user == sessions[reqs[r].tok] IN
     IF user.familyGroupId # Null
     THEN /\ LogActivity(user.id, user.familyGroupId, "reserved_item",
                         reqs[r].existingItem[1].userId)
          /\ SetReq(r, [pc |-> "logged", activityId |-> currentActivityId])
          /\ UNCHANGED <<userVars, groupVars, itemVars, noteVars, reqFrame>>
     ELSE /\ SetReq(r, [pc |-> "done", status |-> 200])
          /\ UNCHANGED <<storeVars, reqFrame>>

\* res.json(item)
ReserveRespond(r) ==
  /\ reqs[r].pc = "logged"
  /\ SetReq(r, [pc |-> "done", status |-> 200])
  /\ UNCHANGED <<storeVars, reqFrame>>

RaceInit ==
  /\ EmptyStore
  /\ cap = [users |-> RaceUsers, tokens |-> RaceUsers, groups |-> RaceGroups,
            items |-> RaceItems, activities |-> RaceActivities, notes |-> 0,
            reqs |-> RaceReqs, sameMs |-> FALSE,
            records |-> 0, listeners |-> 0]

RaceNext ==
  \/ \E p \in Passwords : Register(NoEmail, p)
  \/ \E t \in Presented : CreateGroup(t, "K4J9QZ")
  \/ \E t \in Presented : JoinGroup(t, "K4J9QZ")
  \/ \E t \in Presented : CreateItem(t, "Bike")
  \/ Deliver
  \/ \E t \in Presented, i \in ItemIds : ReserveStart(t, i)
  \/ \E r \in DOMAIN reqs : ReserveWrite(r)
  \/ \E r \in DOMAIN reqs : ReserveLog(r)
  \/ \E r \in DOMAIN reqs : ReserveRespond(r)

SpecRace == RaceInit /\ [][RaceNext]_vars

\* ------------------------------------------------------------ SpecLogout
\* POST /api/family-groups and POST /api/family-groups/join, one action per
\* stretch of the handler between two awaits.  A request in flight is a
\* record of reqs:
\*   user   the id of req.user, the session object the middleware attached
\*   group  the id of the group created or found, or Null
\*   pc     where the handler stands: "called" (awaiting createFamilyGroup or
\*          getFamilyGroupByInviteCode), "updated" (awaiting
\*          updateUserFamilyGroup), "logged" (awaiting createActivity),
\*          "done" (response sent)
GroupRequest(op, tok, pc, status, group) ==
  [op |-> op, tok |-> tok,
   user |-> IF IsAuthenticated(tok) THEN sessions[tok].id ELSE Null,
   group |-> group, pc |-> pc, status |-> status]

\* requireAuth, then group = await storage.createFamilyGroup(..)
CreateGroupStart(tok, inviteCode) ==
  /\ Len(reqs) < cap.reqs
  /\ IF ~IsAuthenticated(tok)
     THEN /\ reqs' = Append(reqs, GroupRequest("createGroup", tok, "done", 401, Null))
          /\ UNCHANGED <<storeVars, reqFrame>>
     ELSE /\ currentFamilyGroupId <= cap.groups
          /\ familyGroups' = createFamilyGroup(currentFamilyGroupId, inviteCode)
          /\ currentFamilyGroupId' = currentFamilyGroupId + 1
          /\ reqs' = Append(reqs, GroupRequest("createGroup", tok, "called", 0,
                                               currentFamilyGroupId))
          /\ UNCHANGED <<userVars, itemVars, actVars, noteVars, now, reqFrame>>

\* requireAuth, then group = await storage.getFamilyGroupByInviteCode(..)
JoinGroupStart(tok, inviteCode) ==
  /\ Len(reqs) < cap.reqs
  /\ reqs' = Append(reqs,
       IF ~IsAuthenticated(tok)
       THEN GroupRequest("joinGroup", tok, "done", 401, Null)
       ELSE GroupRequest("joinGroup", tok, "called", 0,
                         getFamilyGroupByInviteCode(inviteCode)))
  /\ UNCHANGED <<storeVars, reqFrame>>

\* if (!group) return 404 (join); await storage.updateUserFamilyGroup(..)
GroupUpdateUser(r) ==
  /\ reqs[r].pc = "called"
  /\ IF reqs[r].group = Null
     THEN /\ SetReq(r, [pc |-> "done", status |-> 404])
          /\ UNCHANGED <<storeVars, reqFrame>>
     ELSE /\ users' = updateUserFamilyGroup(reqs[r].user, reqs[r].group)
          /\ SetReq(r, [pc |-> "updated"])
          /\ UNCHANGED <<currentUserId, groupVars, itemVars, actVars, noteVars,
                         now, reqFrame>>

\* req.user.familyGroupId = group.id; sessions.set(sessionId, req.user);
\* await storage.createActivity(..)
GroupSetSession(r) ==
  /\ reqs[r].pc = "updated"
  /\ sessions' = MapSet(sessions, reqs[r].tok,
                        [id |-> reqs[r].user, familyGroupId |-> reqs[r].group])
  /\ changedOn' = changedOn \cup {reqs[r].tok}
  /\ LogActivity(reqs[r].user, reqs[r].group,
                 IF reqs[r].op = "createGroup" THEN "created_group"
                                               ELSE "joined_group", Null)
  /\ SetReq(r, [pc |-> "logged"])
  /\ UNCHANGED <<userVars, groupVars, itemVars, noteVars, nextSession,
                 loggedOut, resp, prevReserve, cap, sqlVars, clientVars>>

\* res.json(group)
GroupRespond(r) ==
  /\ reqs[r].pc = "logged"
  /\ SetReq(r, [pc |-> "done", status |-> 200])
  /\ UNCHANGED <<storeVars, reqFrame>>

LogoutInit ==
  /\ EmptyStore
  /\ cap = [users |-> LogoutUsers, tokens |-> LogoutUsers,
            groups |-> LogoutGroups, items |-> 0,
            activities |-> LogoutActivities, notes |-> 0,
            reqs |-> LogoutReqs, sameMs |-> FALSE,
            records |-> 0, listeners |-> 0]

LogoutNext ==
  \/ \E p \in Passwords : Register(NoEmail, p)
  \/ \E t \in Presented : Logout(t)
  \/ Deliver
  \/ \E t \in Presented : CreateGroupStart(t, "K4J9QZ")
  \/ \E t \in Presented : JoinGroupStart(t, "K4J9QZ")
  \/ \E r \in DOMAIN reqs : GroupUpdateUser(r)
  \/ \E r \in DOMAIN reqs : GroupSetSession(r)
  \/ \E r \in DOMAIN reqs : GroupRespond(r)

SpecLogout == LogoutInit /\ [][LogoutNext]_vars

\* ------------------------------------------------------------ SpecStores
\* one action per IStorage operation: the call is made on MemStorage and on
\* DatabaseStorage with the same arguments
storeFrame == <<sessVars, resp, prevReserve, reqs, cap, clientVars>>

\* getFamilyActivities(familyGroupId, limit = 10)
DefaultLimit == 10

\* the call on both stores; ret keeps the two results when they differ
Both(op, memResult, outcomes) ==
  \E o \in outcomes :
    /\ db' = o.db
    /\ ret' = IF memResult = o.result THEN NoReturn
              ELSE [op |-> op, mem |-> memResult, db |-> o.result]

\* the records created so far, in all collections; SpecStores explores the
\* histories that create at most cap.records of them
Created ==
  (currentUserId - 1) + (currentFamilyGroupId - 1) + (currentWishlistItemId - 1)
    + (currentActivityId - 1) + (currentSecretNoteId - 1)

\* what a lookup by key resolves to
Lookup(m, k) == IF k \in DOMAIN m THEN Returned(m[k]) ELSE Undefined

IStorage_getUser(id) ==
  /\ Both("getUser", Lookup(users, id), {[db |-> db, result |-> Lookup(db.users, id)]})
  /\ UNCHANGED <<storeVars, storeFrame>>

IStorage_getUserByEmail(email) ==
  /\ Both("getUserByEmail", Lookup(users, getUserByEmail(email)),
          DatabaseStorage_getUserByEmail(email))
  /\ UNCHANGED <<storeVars, storeFrame>>

IStorage_createUser(email, password) ==
  /\ currentUserId <= cap.users /\ Created < cap.records
  /\ users' = createUser(currentUserId, email, password)
  /\ currentUserId' = currentUserId + 1
  /\ Both("createUser", Returned(users'[currentUserId]),
          DatabaseStorage_createUser(email, password))
  /\ UNCHANGED <<groupVars, itemVars, actVars, noteVars, now, storeFrame>>

IStorage_updateUserFamilyGroup(userId, familyGroupId) ==
  /\ users' = updateUserFamilyGroup(userId, familyGroupId)
  /\ Both("updateUserFamilyGroup", Lookup(users', userId),
          DatabaseStorage_updateUserFamilyGroup(userId, familyGroupId))
  /\ UNCHANGED <<currentUserId, groupVars, itemVars, actVars, noteVars, now,
                 storeFrame>>

IStorage_getFamilyGroup(id) ==
  /\ Both("getFamilyGroup", Lookup(familyGroups, getFamilyGroup(id)),
          {[db |-> db, result |-> Lookup(db.familyGroups, id)]})
  /\ UNCHANGED <<storeVars, storeFrame>>

IStorage_getFamilyGroupByInviteCode(inviteCode) ==
  /\ Both("getFamilyGroupByInviteCode",
          Lookup(familyGroups, getFamilyGroupByInviteCode(inviteCode)),
          DatabaseStorage_getFamilyGroupByInviteCode(inviteCode))
  /\ UNCHANGED <<storeVars, storeFrame>>

IStorage_createFamilyGroup(inviteCode) ==
  /\ currentFamilyGroupId <= cap.groups /\ Created < cap.records
  /\ familyGroups' = createFamilyGroup(currentFamilyGroupId, inviteCode)
  /\ currentFamilyGroupId' = currentFamilyGroupId + 1
  /\ Both("createFamilyGroup", Returned(familyGroups'[currentFamilyGroupId]),
          DatabaseStorage_createFamilyGroup(inviteCode))
  /\ UNCHANGED <<userVars, itemVars, actVars, noteVars, now, storeFrame>>

IStorage_getFamilyMembers(familyGroupId) ==
  /\ Both("getFamilyMembers",
          Listed(Records(users, getFamilyMembers(familyGroupId))),
          DatabaseStorage_getFamilyMembers(familyGroupId))
  /\ UNCHANGED <<storeVars, storeFrame>>

IStorage_getWishlistItems(userId) ==
  /\ Both("getWishlistItems", Listed(getWishlistItems(userId)),
          DatabaseStorage_getWishlistItems(userId))
  /\ UNCHANGED <<storeVars, storeFrame>>

IStorage_getWishlistItem(id) ==
  /\ Both("getWishlistItem", Lookup(wishlistItems, id),
          {[db |-> db, result |-> Lookup(db.wishlistItems, id)]})
  /\ UNCHANGED <<storeVars, storeFrame>>

IStorage_createWishlistItem(userId, name) ==
  /\ currentWishlistItemId <= cap.items /\ Created < cap.records
  /\ \E d \in Elapsed :
       /\ now' = now + d
       /\ wishlistItems' = createWishlistItem(currentWishlistItemId, userId,
                                              name, now + d)
  /\ currentWishlistItemId' = currentWishlistItemId + 1
  /\ Both("createWishlistItem", Returned(wishlistItems'[currentWishlistItemId]),
          DatabaseStorage_createWishlistItem(userId, name))
  /\ UNCHANGED <<userVars, groupVars, actVars, noteVars, storeFrame>>

IStorage_deleteWishlistItem(id) ==
  /\ wishlistItems' = deleteWishlistItem(id)
  /\ Both("deleteWishlistItem", Answered(id \in DOMAIN wishlistItems),
          DatabaseStorage_deleteWishlistItem(id))
  /\ UNCHANGED <<userVars, groupVars, currentWishlistItemId, actVars,
                 noteVars, now, storeFrame>>

IStorage_reserveWishlistItem(id, reservedByUserId) ==
  /\ wishlistItems' = reserveWishlistItem(id, reservedByUserId)
  /\ Both("reserveWishlistItem", Lookup(wishlistItems', id),
          DatabaseStorage_reserveWishlistItem(id, reservedByUserId))
  /\ UNCHANGED <<userVars, groupVars, currentWishlistItemId, actVars,
                 noteVars, now, storeFrame>>

IStorage_unreserveWishlistItem(id) ==
  /\ wishlistItems' = unreserveWishlistItem(id)
  /\ Both("unreserveWishlistItem", Lookup(wishlistItems', id),
          DatabaseStorage_unreserveWishlistItem(id))
  /\ UNCHANGED <<userVars, groupVars, currentWishlistItemId, actVars,
                 noteVars, now, storeFrame>>

IStorage_createActivity(userId, familyGroupId, action, targetUserId) ==
  /\ Created < cap.records
  /\ LogActivity(userId, familyGroupId, action, targetUserId)
  /\ Both("createActivity", Returned(activities'[currentActivityId]),
          DatabaseStorage_createActivity(userId, familyGroupId, action,
                                         targetUserId))
  /\ UNCHANGED <<userVars, groupVars, itemVars, noteVars, storeFrame>>

IStorage_getFamilyActivities(familyGroupId, limit) ==
  /\ Both("getFamilyActivities",
          Listed(getFamilyActivities(familyGroupId, limit)),
          DatabaseStorage_getFamilyActivities(familyGroupId, limit))
  /\ UNCHANGED <<storeVars, storeFrame>>

IStorage_createSecretNote(userId, wishlistItemId) ==
  /\ currentSecretNoteId <= cap.notes /\ Created < cap.records
  /\ secretNotes' = createSecretNote(currentSecretNoteId, userId, wishlistItemId)
  /\ currentSecretNoteId' = currentSecretNoteId + 1
  /\ Both("createSecretNote", Returned(secretNotes'[currentSecretNoteId]),
          DatabaseStorage_createSecretNote(userId, wishlistItemId))
  /\ UNCHANGED <<userVars, groupVars, itemVars, actVars, now, storeFrame>>

IStorage_getSecretNotes(wishlistItemId, userId) ==
  /\ Both("getSecretNotes", Listed(getSecretNotes(wishlistItemId, userId)),
          DatabaseStorage_getSecretNotes(wishlistItemId, userId))
  /\ UNCHANGED <<storeVars, storeFrame>>

StoresInit ==
  /\ EmptyStore
  /\ cap = [users |-> StoreUsers, tokens |-> 0, groups |-> StoreGroups,
            items |-> StoreItems, activities |-> StoreActivities,
            notes |-> StoreNotes, reqs |-> 0, sameMs |-> TRUE,
            records |-> StoreRecords, listeners |-> 0]

GroupIds == 1..cap.groups

StoresNext ==
  \/ \E u \in UserIds : IStorage_getUser(u)
  \/ \E e \in Emails : IStorage_getUserByEmail(e)
  \/ \E e \in Emails, p \in Passwords : IStorage_createUser(e, p)
  \/ \E u \in UserIds, g \in GroupIds : IStorage_updateUserFamilyGroup(u, g)
  \/ \E g \in GroupIds : IStorage_getFamilyGroup(g)
  \/ \E c \in Codes : IStorage_getFamilyGroupByInviteCode(c)
  \/ \E c \in Codes : IStorage_createFamilyGroup(c)
  \/ \E g \in GroupIds : IStorage_getFamilyMembers(g)
  \/ \E u \in UserIds : IStorage_getWishlistItems(u)
  \/ \E i \in ItemIds : IStorage_getWishlistItem(i)
  \/ \E u \in UserIds : IStorage_createWishlistItem(u, "Bike")
  \/ \E i \in ItemIds : IStorage_deleteWishlistItem(i)
  \/ \E i \in ItemIds, u \in UserIds : IStorage_reserveWishlistItem(i, u)
  \/ \E i \in ItemIds : IStorage_unreserveWishlistItem(i)
  \/ \E u \in UserIds, g \in GroupIds :
       IStorage_createActivity(u, g, "added_item", Null)
  \/ \E g \in GroupIds, limit \in {1, DefaultLimit} :
       IStorage_getFamilyActivities(g, limit)
  \/ \E u \in UserIds, i \in ItemIds : IStorage_createSecretNote(u, i)
  \/ \E i \in ItemIds, u \in UserIds : IStorage_getSecretNotes(i, u)

SpecStores == StoresInit /\ [][StoresNext]_vars

\* ------------------------------------------------------------- SpecOrder
\* the listings of the store (getWishlistItems, getFamilyActivities) after
\* creations that can fall into the same ms and PUT requests whose body
\* carries a createdAt
\* a createdAt that arrived in a JSON body and is no Date: a string or a number
NotADate == -1

\* JSON bodies of PUT /api/wishlist-items/:id that carry a createdAt: null,
\* or a value that is no Date
ClockBodies == {[createdAt |-> Null], [createdAt |-> NotADate]}

\* the comparator of .sort calls createdAt?.getTime() on both of its
\* arguments: a TypeError when a createdAt is neither null nor a Date.  The
\* comparator runs when there are two records or more to sort
SortThrows(m, keys) ==
  Cardinality(keys) >= 2 /\ \E k \in keys : m[k].createdAt = NotADate

\* what await storage.getWishlistItems(userId) gives its caller
getWishlistItemsResult(userId) ==
  LET keys == {k \in DOMAIN wishlistItems : wishlistItems[k].userId = userId} IN
    IF SortThrows(wishlistItems, keys) THEN Throws
    ELSE [ok |-> TRUE, value |-> getWishlistItems(userId)]

OrderInit ==
  /\ EmptyStore
  /\ cap = [users |-> OrderUsers, tokens |-> OrderUsers, groups |-> OrderGroups,
            items |-> OrderItems, activities |-> OrderActivities, notes |-> 0,
            reqs |-> 0, sameMs |-> TRUE,
            records |-> 0, listeners |-> 0]

OrderNext ==
  \/ \E p \in Passwords : Register(NoEmail, p)
  \/ \E t \in Presented : CreateGroup(t, "K4J9QZ")
  \/ \E t \in Presented : JoinGroup(t, "K4J9QZ")
  \/ \E t \in Presented : CreateItem(t, "Bike")
  \/ \E t \in Presented, i \in ItemIds, b \in ClockBodies : PutItem(t, i, b)
  \/ Deliver

SpecOrder == OrderInit /\ [][OrderNext]_vars

\* ---------------------------------------------------------- SpecRegister
\* POST /api/auth/register, one action per stretch of the handler between
\* two awaits.  A request in flight is a record of reqs:
\*   existingUser  what getUserByEmail returned (Null for undefined, and when
\*                 the body has no email and the lookup is skipped)
\*   user          the id of the user createUser returned, or Null
\*   pc            where the handler stands: "looked" (awaiting
\*                 getUserByEmail), "created" (awaiting createUser), "done"
\*   tok           the session id handed out, or NoToken
RegisterRequest(email, password, existingUser, user, pc) ==
  [email |-> email, password |-> password, existingUser |-> existingUser,
   user |-> user, pc |-> pc, status |-> 0, tok |-> NoToken]

\* if (userData.email) existingUser = await storage.getUserByEmail(..);
\* with no email the handler goes on to createUser at once
RegisterStart(email, password) ==
  /\ Len(reqs) < cap.reqs
  /\ IF email # NoEmail
     THEN /\ reqs' = Append(reqs, RegisterRequest(email, password,
                                                  getUserByEmail(email), Null,
                                                  "looked"))
          /\ UNCHANGED <<storeVars, reqFrame>>
     ELSE /\ currentUserId <= cap.users
          /\ users' = createUser(currentUserId, email, password)
          /\ currentUserId' = currentUserId + 1
          /\ reqs' = Append(reqs, RegisterRequest(email, password, Null,
                                                  currentUserId, "created"))
          /\ UNCHANGED <<groupVars, itemVars, actVars, noteVars, now, reqFrame>>

\* if (existingUser) return 400; user = await storage.createUser(userData)
RegisterCreate(r) ==
  /\ reqs[r].pc = "looked"
  /\ IF reqs[r].existingUser # Null
     THEN /\ SetReq(r, [pc |-> "done", status |-> 400])
          /\ UNCHANGED <<storeVars, reqFrame>>
     ELSE /\ currentUserId <= cap.users
          /\ users' = createUser(currentUserId, reqs[r].email, reqs[r].password)
          /\ currentUserId' = currentUserId + 1
          /\ SetReq(r, [pc |-> "created", user |-> currentUserId])
          /\ UNCHANGED <<groupVars, itemVars, actVars, noteVars, now, reqFrame>>

\* sessions.set(sessionId, sessionUser); res.json({ user, sessionId })
RegisterSession(r) ==
  /\ reqs[r].pc = "created"
  /\ nextSession <= cap.tokens
  /\ sessions' = MapSet(sessions, nextSession,
                        [id |-> reqs[r].user, familyGroupId |-> Null])
  /\ nextSession' = nextSession + 1
  /\ SetReq(r, [pc |-> "done", status |-> 200, tok |-> nextSession])
  /\ UNCHANGED <<storeVars, changedOn, loggedOut, resp, prevReserve, cap,
                 sqlVars, clientVars>>

RegisterInit ==
  /\ EmptyStore
  /\ cap = [users |-> RegisterUsers, tokens |-> RegisterUsers, groups |-> 0,
            items |-> 0, activities |-> 0, notes |-> 0,
            reqs |-> RegisterReqs, sameMs |-> FALSE,
            records |-> 0, listeners |-> 0]

RegisterNext ==
  \/ \E e \in Emails \cup {"b@x.no"}, p \in Passwords : RegisterStart(e, p)
  \/ \E r \in DOMAIN reqs : RegisterCreate(r)
  \/ \E r \in DOMAIN reqs : RegisterSession(r)

SpecRegister == RegisterInit /\ [][RegisterNext]_vars

\* ------------------------------------------------------------ SpecClient
\* the auth store of the client against the auth routes of the server.  A
\* call of auth.login, auth.register, auth.logout or auth.checkAuth that
\* awaits its fetch is a record of reqs:
\*   op         "login", "register", "logout" or "me"
\*   email, password  the body of a login or register request
\*   sessionId  the X-Session-Id header: authState.sessionId at the call
\*   pc         "sent" (the request is on its way), "answered" (the response
\*              is on its way), "failed" (the fetch rejects)
\*   ok         response.ok
\*   user, tok  user (an id) and sessionId of the response body
AuthCall(op, email, password, sessionId) ==
  [op |-> op, email |-> email, password |-> password, sessionId |-> sessionId,
   pc |-> "sent", ok |-> FALSE, user |-> Null, tok |-> NoToken]

\* the server sends its response to call c
Answer(c, ok, user, tok) ==
  SetReq(c, [pc |-> "answered", ok |-> ok, user |-> user, tok |-> tok])

\* the call is over: its record is dropped
Remove(q, i) == SubSeq(q, 1, i - 1) \o SubSeq(q, i + 1, Len(q))

\* { user: null, sessionId: null }
Cleared == [user |-> Null, sessionId |-> NoToken]

\* authListeners.forEach(listener => listener(authState)): the calls made,
\* in order (no listener of the client subscribes or unsubscribes while it runs)
Notify(state) ==
  heard' = [i \in DOMAIN authListeners |->
              [listener |-> authListeners[i], state |-> state]]

\* what a step of the client leaves alone on the server
clientFrame == <<storeVars, sessVars, resp, prevReserve, cap, sqlVars>>

\* a step that changes no client state and calls no listener
Quiet ==
  /\ heard' = <<>>
  /\ UNCHANGED <<authState, localStorage, authListeners, subs>>

\* authListeners.indexOf(listener): 0-based, -1 when absent
IndexOf(q, x) ==
  IF x \in Range(q) THEN Min({i \in DOMAIN q : q[i] = x}) - 1 ELSE -1

\* q.splice(start, 1): a negative start counts from the end of the array
Splice(q, start) ==
  LET from == IF start < 0
              THEN (IF Len(q) + start < 0 THEN 0 ELSE Len(q) + start)
              ELSE start
  IN IF from >= Len(q) THEN q ELSE Remove(q, from + 1)

\* mutant: the splice is not guarded by index > -1
Unsubscribed_NoGuard(listeners, listener) ==
  Splice(listeners, IndexOf(listeners, listener))

\* the function subscribe returns: index = indexOf(listener);
\* if (index > -1) splice(index, 1)
Unsubscribed(listeners, listener) ==
  LET index == IndexOf(listeners, listener)
  IN IF index > -1 THEN Splice(listeners, index) ELSE listeners

\* auth.subscribe(listener): every call of the client passes a new closure
Subscribe ==
  /\ Len(subs) < cap.listeners
  /\ authListeners' = Append(authListeners, Len(subs) + 1)
  /\ subs' = Append(subs, "on")
  /\ heard' = <<>>
  /\ UNCHANGED <<authState, localStorage, reqs, clientFrame>>

\* a call of the function subscribe returned for this listener
Unsubscribe(listener) ==
  /\ authListeners' = Unsubscribed(authListeners, listener)
  /\ subs' = [subs EXCEPT ![listener] = "off"]
  /\ heard' = <<>>
  /\ UNCHANGED <<authState, localStorage, reqs, clientFrame>>

\* auth.login up to await fetch
AuthLoginStart(email, password) ==
  /\ Len(reqs) < cap.reqs
  /\ reqs' = Append(reqs, AuthCall("login", email, password, NoToken))
  /\ Quiet
  /\ UNCHANGED clientFrame

\* auth.register up to await fetch
AuthRegisterStart(email, password) ==
  /\ Len(reqs) < cap.reqs
  /\ reqs' = Append(reqs, AuthCall("register", email, password, NoToken))
  /\ Quiet
  /\ UNCHANGED clientFrame

\* auth.logout: with a sessionId up to await fetch, without one to its end
AuthLogoutStart ==
  /\ IF authState.sessionId # NoToken
     THEN /\ Len(reqs) < cap.reqs
          /\ reqs' = Append(reqs, AuthCall("logout", NoEmail, "", authState.sessionId))
          /\ Quiet
     ELSE /\ authState' = Cleared
          /\ localStorage' = NoToken
          /\ Notify(Cleared)
          /\ UNCHANGED <<authListeners, subs, reqs>>
  /\ UNCHANGED clientFrame

\* auth.checkAuth up to await fetch (without a sessionId it returns null at
\* once and does nothing)
AuthCheckStart ==
  /\ authState.sessionId # NoToken
  /\ Len(reqs) < cap.reqs
  /\ reqs' = Append(reqs, AuthCall("me", NoEmail, "", authState.sessionId))
  /\ Quiet
  /\ UNCHANGED clientFrame

\* the steps of the server leave the client alone
serverFrame == <<resp, prevReserve, cap, sqlVars, clientVars>>

\* POST /api/auth/login handles the request of call c
ServeLogin(c) ==
  /\ reqs[c].op = "login" /\ reqs[c].pc = "sent"
  /\ nextSession <= cap.tokens
  /\ LET user == getUserByEmail(reqs[c].email) IN
       IF reqs[c].email = "" \/ user = Null
          \/ users[user].password # reqs[c].password
       THEN /\ Answer(c, FALSE, Null, NoToken)
            /\ UNCHANGED <<storeVars, sessVars>>
       ELSE /\ sessions' = MapSet(sessions, nextSession, SessionUser(user))
            /\ nextSession' = nextSession + 1
            /\ Answer(c, TRUE, user, nextSession)
            /\ UNCHANGED <<storeVars, changedOn, loggedOut>>
  /\ UNCHANGED serverFrame

\* POST /api/auth/register handles the request of call c
ServeRegister(c) ==
  /\ reqs[c].op = "register" /\ reqs[c].pc = "sent"
  /\ currentUserId <= cap.users
  /\ nextSession <= cap.tokens
  /\ IF reqs[c].email # "" /\ getUserByEmail(reqs[c].email) # Null
     THEN /\ Answer(c, FALSE, Null, NoToken)
          /\ UNCHANGED <<storeVars, sessVars>>
     ELSE /\ users' = createUser(currentUserId, reqs[c].email, reqs[c].password)
          /\ currentUserId' = currentUserId + 1
          /\ sessions' = MapSet(sessions, nextSession,
                                [id |-> currentUserId, familyGroupId |-> Null])
          /\ nextSession' = nextSession + 1
          /\ Answer(c, TRUE, currentUserId, nextSession)
          /\ UNCHANGED <<groupVars, itemVars, actVars, noteVars, now, changedOn,
                         loggedOut>>
  /\ UNCHANGED serverFrame

\* POST /api/auth/logout handles the request of call c
ServeLogout(c) ==
  /\ reqs[c].op = "logout" /\ reqs[c].pc = "sent"
  /\ IF ~IsAuthenticated(reqs[c].sessionId)
     THEN /\ Answer(c, FALSE, Null, NoToken)
          /\ UNCHANGED <<storeVars, sessVars>>
     ELSE /\ sessions' = MapDelete(sessions, reqs[c].sessionId)
          /\ loggedOut' = loggedOut \cup {reqs[c].sessionId}
          /\ Answer(c, TRUE, Null, NoToken)
          /\ UNCHANGED <<storeVars, nextSession, changedOn>>
  /\ UNCHANGED serverFrame

\* GET /api/auth/me handles the request of call c
ServeMe(c) ==
  /\ reqs[c].op = "me" /\ reqs[c].pc = "sent"
  /\ IF ~IsAuthenticated(reqs[c].sessionId)
     THEN Answer(c, FALSE, Null, NoToken)
     ELSE Answer(c, TRUE, authMe(reqs[c].sessionId).id, NoToken)
  /\ UNCHANGED <<storeVars, sessVars, serverFrame>>

\* the request or the response of call c is lost: its fetch rejects
FetchFails(c) ==
  /\ reqs[c].pc \in {"sent", "answered"}
  /\ SetReq(c, [pc |-> "failed"])
  /\ UNCHANGED <<storeVars, sessVars, serverFrame>>

\* the fetch of call c has settled: the call goes on
Settled(c) == reqs[c].pc \in {"answered", "failed"}

\* auth.login after await fetch: throws on a rejected fetch and on
\* !response.ok, else takes user and sessionId from the body
AuthLoginDone(c) ==
  /\ reqs[c].op = "login" /\ Settled(c)
  /\ reqs' = Remove(reqs, c)
  /\ IF reqs[c].pc = "answered" /\ reqs[c].ok
     THEN /\ authState' = [user |-> reqs[c].user, sessionId |-> reqs[c].tok]
          /\ localStorage' = reqs[c].tok
          /\ Notify(authState')
     ELSE /\ heard' = <<>>
          /\ UNCHANGED <<authState, localStorage>>
  /\ UNCHANGED <<authListeners, subs, clientFrame>>

\* auth.register after await fetch
AuthRegisterDone(c) ==
  /\ reqs[c].op = "register" /\ Settled(c)
  /\ reqs' = Remove(reqs, c)
  /\ IF reqs[c].pc = "answered" /\ reqs[c].ok
     THEN /\ authState' = [user |-> reqs[c].user, sessionId |-> reqs[c].tok]
          /\ localStorage' = reqs[c].tok
          /\ Notify(authState')
     ELSE /\ heard' = <<>>
          /\ UNCHANGED <<authState, localStorage>>
  /\ UNCHANGED <<authListeners, subs, clientFrame>>

\* auth.logout after await fetch: throws on a rejected fetch, else clears
\* the state whatever the status of the response
AuthLogoutDone(c) ==
  /\ reqs[c].op = "logout" /\ Settled(c)
  /\ reqs' = Remove(reqs, c)
  /\ IF reqs[c].pc = "answered"
     THEN /\ authState' = Cleared
          /\ localStorage' = NoToken
          /\ Notify(Cleared)
     ELSE /\ heard' = <<>>
          /\ UNCHANGED <<authState, localStorage>>
  /\ UNCHANGED <<authListeners, subs, clientFrame>>

\* auth.checkAuth after await fetch: { ...authState, user } on response.ok,
\* else (and in the catch of a rejected fetch) the state is cleared
AuthCheckDone(c) ==
  /\ reqs[c].op = "me" /\ Settled(c)
  /\ reqs' = Remove(reqs, c)
  /\ IF reqs[c].pc = "answered" /\ reqs[c].ok
     THEN /\ authState' = [authState EXCEPT !.user = reqs[c].user]
          /\ UNCHANGED localStorage
          /\ Notify(authState')
     ELSE /\ authState' = Cleared
          /\ localStorage' = NoToken
          /\ Notify(Cleared)
  /\ UNCHANGED <<authListeners, subs, clientFrame>>

ClientInit ==
  /\ EmptyStore
  /\ cap = [users |-> ClientUsers, tokens |-> ClientTokens, groups |-> 0,
            items |-> 0, activities |-> 0, notes |-> 0,
            reqs |-> ClientReqs, sameMs |-> FALSE,
            records |-> 0, listeners |-> ClientListeners]

ClientNext ==
  \/ Subscribe
  \/ \E l \in DOMAIN subs : Unsubscribe(l)
  \/ \E p \in Passwords \cup {BadPassword} : AuthLoginStart("a@x.no", p)
  \/ \E e \in Emails, p \in Passwords : AuthRegisterStart(e, p)
  \/ AuthLogoutStart
  \/ AuthCheckStart
  \/ \E c \in DOMAIN reqs : ServeLogin(c)
  \/ \E c \in DOMAIN reqs : ServeRegister(c)
  \/ \E c \in DOMAIN reqs : ServeLogout(c)
  \/ \E c \in DOMAIN reqs : ServeMe(c)
  \/ \E c \in DOMAIN reqs : FetchFails(c)
  \/ \E c \in DOMAIN reqs : AuthLoginDone(c)
  \/ \E c \in DOMAIN reqs : AuthRegisterDone(c)
  \/ \E c \in DOMAIN reqs : AuthLogoutDone(c)
  \/ \E c \in DOMAIN reqs : AuthCheckDone(c)

SpecClient == ClientInit /\ [][ClientNext]_vars

\* --------------------------------------------------------------- SpecIds
\* items created, updated through PUT with any body, and deleted: the keys
\* of the store against the id fields and the id counters
IdsInit ==
  /\ EmptyStore
  /\ cap = [users |-> IdsUsers, tokens |-> IdsUsers, groups |-> 0,
            items |-> IdsItems, activities |-> 0, notes |-> 0,
            reqs |-> 0, sameMs |-> FALSE,
            records |-> 0, listeners |-> 0]

IdsNext ==
  \/ \E p \in Passwords : Register(NoEmail, p)
  \/ \E t \in Presented : CreateItem(t, "Bike")
  \/ \E t \in Presented, i \in ItemIds, b \in Bodies : PutItem(t, i, b)
  \/ \E t \in Presented, i \in ItemIds : DeleteItem(t, i)
  \/ Deliver

SpecIds == IdsInit /\ [][IdsNext]_vars

\* ================================================================ claims
\* a step in which the handler of route op sent its response
Handled(op) == resp = NoResponse /\ resp'.op = op
\* the user a token stands for (before the step)
Requester(tok) == sessions[tok].id
ReservationFields(item) ==
  [isReserved |-> item.isReserved, reservedByUserId |-> item.reservedByUserId]

\* C1: every wishlist item has isReserved = TRUE iff its reservedByUserId is
\* non-null, in every reachable state.
C1_ReservedIffReserver ==
  \A i \in DOMAIN wishlistItems :
    wishlistItems[i].isReserved <=> (wishlistItems[i].reservedByUserId # Null)

\* C2: an item's reservedByUserId, when set, differs from the item's userId:
\* no item is ever reserved by its own owner.
C2_NeverReservedByOwner ==
  \A i \in DOMAIN wishlistItems :
    wishlistItems[i].reservedByUserId # Null
      => wishlistItems[i].reservedByUserId # wishlistItems[i].userId

\* C3: with requests handled one after another, a reserve request by a user
\* on an item that is already reserved is answered 400, leaves the item's
\* isReserved and reservedByUserId as they were and appends no activity.
C3_ReserveOnReservedConflicts ==
  [][(/\ Handled("reserve")
      /\ IsAuthenticated(resp'.tok)
      /\ resp'.id \in DOMAIN wishlistItems
      /\ wishlistItems[resp'.id].isReserved)
     => (/\ resp'.status = 400
         /\ resp'.id \in DOMAIN wishlistItems'
         /\ ReservationFields(wishlistItems'[resp'.id])
              = ReservationFields(wishlistItems[resp'.id])
         /\ activities' = activities)]_vars

\* C3 witness: a member of a family group, not the owner and not the
\* reserver, has just been refused the reservation of a reserved item.
C3_Witness ==
  /\ resp.op = "reserve" /\ resp.status = 400
  /\ resp.id \in DOMAIN wishlistItems
  /\ resp.tok \in DOMAIN sessions
  /\ LET item == wishlistItems[resp.id]
         user == sessions[resp.tok] IN
       /\ item.isReserved
       /\ item.userId # user.id
       /\ item.reservedByUserId \notin {Null, user.id, item.userId}
       /\ user.familyGroupId # Null
       /\ currentActivityId <= cap.activities

\* C4: no reserve, unreserve or secret-note request issued by the owner of
\* the item it names succeeds: each is answered with an error and leaves the
\* items and the secret notes as they were.
C4_OwnerNeverActsOnOwnItem ==
  [][\A op \in {"reserve", "unreserve", "note"} :
       (/\ Handled(op)
        /\ IsAuthenticated(resp'.tok)
        /\ resp'.id \in DOMAIN wishlistItems
        /\ wishlistItems[resp'.id].userId = Requester(resp'.tok))
       => (/\ resp'.status # 200
           /\ wishlistItems' = wishlistItems
           /\ secretNotes' = secretNotes)]_vars

\* C6: an unreserve request succeeds only if the item is reserved and its
\* reservedByUserId is the requester; in every other case it is answered
\* with an error and leaves the item's reservation fields as they were.
UnreserveLegal(tok, id) ==
  /\ IsAuthenticated(tok)
  /\ id \in DOMAIN wishlistItems
  /\ wishlistItems[id].isReserved
  /\ wishlistItems[id].reservedByUserId = Requester(tok)

C6_UnreserveOnlyByReserver ==
  [][Handled("unreserve")
     => (/\ resp'.status = 200 => UnreserveLegal(resp'.tok, resp'.id)
         /\ ~UnreserveLegal(resp'.tok, resp'.id)
              => (/\ resp'.status \in {400, 401, 403, 404}
                  /\ wishlistItems' = wishlistItems))]_vars

\* C6 witness: a user other than the reserver has just been refused the
\* unreserve of a reserved item, which is still reserved by the reserver.
C6_Witness ==
  /\ resp.op = "unreserve" /\ resp.status = 400
  /\ resp.id \in DOMAIN wishlistItems
  /\ resp.tok \in DOMAIN sessions
  /\ wishlistItems[resp.id].isReserved
  /\ wishlistItems[resp.id].reservedByUserId \notin {Null, sessions[resp.tok].id}
  /\ wishlistItems[resp.id].userId # sessions[resp.tok].id

\* C7: a successful unreserve leaves the item Open (isReserved = FALSE,
\* reservedByUserId = null); a reserve followed by an unreserve by the same
\* user restores the reservation fields the item had before the reserve; and
\* a reserve by a non-owner on an item that is not reserved succeeds and
\* records that user as the reserver.
C7_ReserveUnreserveRoundTrip ==
  [][/\ (Handled("unreserve") /\ resp'.status = 200)
          => (/\ ReservationFields(wishlistItems'[resp'.id])
                   = [isReserved |-> FALSE, reservedByUserId |-> Null]
              /\ (prevReserve.tok = resp'.tok /\ prevReserve.id = resp'.id)
                   => ReservationFields(wishlistItems'[resp'.id])
                        = [isReserved |-> prevReserve.isReserved,
                           reservedByUserId |-> prevReserve.reservedByUserId])
     /\ (/\ Handled("reserve")
         /\ IsAuthenticated(resp'.tok)
         /\ resp'.id \in DOMAIN wishlistItems
         /\ ~wishlistItems[resp'.id].isReserved
         /\ wishlistItems[resp'.id].userId # Requester(resp'.tok))
          => (/\ resp'.status = 200
              /\ ReservationFields(wishlistItems'[resp'.id])
                   = [isReserved |-> TRUE,
                      reservedByUserId |-> Requester(resp'.tok)])]_vars

\* C8: a PUT or DELETE on an existing item by an authenticated user who is
\* not its owner is answered 403 and leaves the item present and unmodified;
\* a DELETE by the owner succeeds, whether the item is reserved or not, and
\* removes the item.
C8_OnlyOwnerUpdatesOrDeletes ==
  [][/\ \A op \in {"put", "delete"} :
          (/\ Handled(op)
           /\ IsAuthenticated(resp'.tok)
           /\ resp'.id \in DOMAIN wishlistItems
           /\ wishlistItems[resp'.id].userId # Requester(resp'.tok))
          => (resp'.status = 403 /\ wishlistItems' = wishlistItems)
     /\ (/\ Handled("delete")
         /\ IsAuthenticated(resp'.tok)
         /\ resp'.id \in DOMAIN wishlistItems
         /\ wishlistItems[resp'.id].userId = Requester(resp'.tok))
          => (resp'.status = 200 /\ resp'.id \notin DOMAIN wishlistItems')]_vars

\* C8 witness: a user who is not the owner has just been refused the DELETE
\* of a reserved item, and the item is still there.
C8_Witness ==
  /\ resp.op = "delete" /\ resp.status = 403
  /\ resp.id \in DOMAIN wishlistItems
  /\ resp.tok \in DOMAIN sessions
  /\ wishlistItems[resp.id].userId # sessions[resp.tok].id
  /\ wishlistItems[resp.id].isReserved

\* C9: a successful PUT leaves the item's isReserved, reservedByUserId, id
\* and userId as they were, whatever the request body.
C9_PutKeepsReservationAndIdentity ==
  [][(Handled("put") /\ resp'.status = 200)
     => (/\ resp'.id \in DOMAIN wishlistItems'
         /\ \A f \in {"isReserved", "reservedByUserId", "id", "userId"} :
              wishlistItems'[resp'.id][f] = wishlistItems[resp'.id][f])]_vars

\* C5: two reserve requests by two distinct users, neither the owner, that
\* both read the same item before either wrote it both observe it Open and
\* both return 200; the item then carries the id of the request that wrote
\* last, and every reserved_item activity they logged is a record of its own.
Raced(r1, r2) ==
  /\ r1 # r2
  /\ reqs[r1].id = reqs[r2].id
  /\ reqs[r1].existingItem # <<>> /\ reqs[r2].existingItem # <<>>
  /\ ~reqs[r1].existingItem[1].isReserved
  /\ ~reqs[r2].existingItem[1].isReserved
  /\ sessions[reqs[r1].tok].id # sessions[reqs[r2].tok].id
  /\ reqs[r1].existingItem[1].userId # sessions[reqs[r1].tok].id
  /\ reqs[r2].existingItem[1].userId # sessions[reqs[r2].tok].id

LastWriter(id) ==
  CHOOSE r \in DOMAIN reqs :
    /\ reqs[r].id = id /\ reqs[r].writeNo # 0
    /\ \A q \in DOMAIN reqs : reqs[q].id = id => reqs[q].writeNo <= reqs[r].writeNo

ReservedItemActivity(r) ==
  /\ reqs[r].activityId \in DOMAIN activities
  /\ activities[reqs[r].activityId].action = "reserved_item"
  /\ activities[reqs[r].activityId].userId = sessions[reqs[r].tok].id
  /\ activities[reqs[r].activityId].targetUserId = reqs[r].existingItem[1].userId

C5_RacingReservesBothSucceed ==
  \A r1, r2 \in DOMAIN reqs :
    (Raced(r1, r2) /\ reqs[r1].pc = "done" /\ reqs[r2].pc = "done")
    => (/\ reqs[r1].status = 200 /\ reqs[r2].status = 200
        /\ reqs[r1].id \in DOMAIN wishlistItems
        /\ wishlistItems[reqs[r1].id].isReserved
        /\ wishlistItems[reqs[r1].id].reservedByUserId
             = sessions[reqs[LastWriter(reqs[r1].id)].tok].id
        /\ \A r \in {r1, r2} :
             IF sessions[reqs[r].tok].familyGroupId = Null
             THEN reqs[r].activityId = Null
             ELSE reqs[r].activityId # Null => ReservedItemActivity(r)
        /\ (reqs[r1].activityId # Null /\ reqs[r2].activityId # Null)
             => reqs[r1].activityId # reqs[r2].activityId)

\* C5 witness: both racing requests have returned 200, the item carries the
\* id of the one that wrote last (the other wrote first), and the log holds
\* two reserved_item activities, one of each.
C5_Witness ==
  \E r1, r2 \in DOMAIN reqs :
    /\ Raced(r1, r2)
    /\ reqs[r1].pc = "done" /\ reqs[r2].pc = "done"
    /\ reqs[r1].status = 200 /\ reqs[r2].status = 200
    /\ reqs[r1].writeNo = 1 /\ reqs[r2].writeNo = 2
    /\ wishlistItems[reqs[r1].id].reservedByUserId = sessions[reqs[r2].tok].id
    /\ ReservedItemActivity(r1) /\ ReservedItemActivity(r2)
    /\ reqs[r1].activityId # reqs[r2].activityId
    /\ Cardinality({a \in DOMAIN activities :
                      activities[a].action = "reserved_item"}) = 2

\* C10: once a create-group or join-group request has succeeded on token t,
\* every later request presenting t observes the familyGroupId the record
\* store holds for that user (here: GET /api/auth/me).
C10_SessionFollowsStore ==
  \A t \in changedOn \cap DOMAIN sessions :
    authMe(t).familyGroupId = users[sessions[t].id].familyGroupId

\* C11: a join request by an authenticated user whose invite code matches no
\* family group is answered 404 and changes nothing: the record store (the
\* requester's familyGroupId, the activity log) and the session table are as
\* they were.
C11_JoinUnknownCodeNotFound ==
  [][\A t \in Presented, c \in Codes :
       (/\ JoinGroup(t, c)
        /\ IsAuthenticated(t)
        /\ \A g \in DOMAIN familyGroups : familyGroups[g].inviteCode # c)
       => (/\ resp'.status = 404
           /\ UNCHANGED <<storeVars, sessions>>)]_vars

\* C11 witness: a user who is in a family group has just been answered 404
\* on a join, while a group with another code exists; the user is still in
\* the same group, in the store and in the session.
C11_Witness ==
  /\ resp.op = "joinGroup" /\ resp.status = 404
  /\ resp.tok \in DOMAIN sessions
  /\ DOMAIN familyGroups # {}
  /\ sessions[resp.tok].familyGroupId # Null
  /\ users[sessions[resp.tok].id].familyGroupId = sessions[resp.tok].familyGroupId
  /\ currentActivityId <= cap.activities

\* C12: once user u has joined group g (the join was answered 200),
\* u.familyGroupId = g.id whatever group u was in before, u is a member of g
\* and of no other group, and GET /api/family-groups/current for u (on any
\* of u's session tokens) returns g with exactly the users whose
\* familyGroupId is g.id.
C12_JoinSetsMembership ==
  (resp.op = "joinGroup" /\ resp.status = 200)
  => LET u == sessions[resp.tok].id
         g == resp.id IN
       /\ users[u].familyGroupId = g
       /\ \A k \in DOMAIN familyGroups :
            (u \in Range(getFamilyMembers(k))) <=> (k = g)
       /\ \A t \in DOMAIN sessions :
            sessions[t].id = u
            => familyGroupsCurrent(t)
                 = [status |-> 200, group |-> g,
                    members |-> InOrder({v \in DOMAIN users :
                                           users[v].familyGroupId = g})]

\* C13: no two family groups in the record store have the same inviteCode,
\* whatever codes the generator returned to the create-group requests.
C13_InviteCodesUnique ==
  \A g, h \in DOMAIN familyGroups :
    familyGroups[g].inviteCode = familyGroups[h].inviteCode => g = h

\* the step appended exactly one activity, with these fields
AppendedOne(action, userId, targetUserId) ==
  /\ DOMAIN activities' = DOMAIN activities \cup {currentActivityId}
  /\ currentActivityId \notin DOMAIN activities
  /\ \A a \in DOMAIN activities : activities'[a] = activities[a]
  /\ activities'[currentActivityId].action = action
  /\ activities'[currentActivityId].userId = userId
  /\ activities'[currentActivityId].targetUserId = targetUserId

\* the user belongs to a family group, by the record store
InGroup(userId) ==
  userId \in DOMAIN users /\ users[userId].familyGroupId # Null

\* C14: every successful reserve and every successful unreserve of an item
\* whose owner belongs to a family group appends exactly one activity, with
\* action reserved_item, userId the acting user and targetUserId the owner.
C14_ReservationTransitionsLogged ==
  [][\A op \in {"reserve", "unreserve"} :
       (/\ Handled(op) /\ resp'.status = 200
        /\ InGroup(wishlistItems[resp'.id].userId))
       => AppendedOne("reserved_item", Requester(resp'.tok),
                      wishlistItems[resp'.id].userId)]_vars

\* the step appended exactly one activity, of this action, user and group
AppendedFor(action, userId, familyGroupId) ==
  /\ DOMAIN activities' = DOMAIN activities \cup {currentActivityId}
  /\ currentActivityId \notin DOMAIN activities
  /\ \A a \in DOMAIN activities : activities'[a] = activities[a]
  /\ activities'[currentActivityId].action = action
  /\ activities'[currentActivityId].userId = userId
  /\ activities'[currentActivityId].familyGroupId = familyGroupId

\* C15: a successful item creation appends exactly one added_item activity
\* (userId the creator, familyGroupId the creator's group) if the creator
\* belongs to a family group and none otherwise; a successful create-group
\* appends exactly one created_group activity and a successful join exactly
\* one joined_group activity, with userId the acting user and familyGroupId
\* that group's id.
C15_ActivitiesOfCreateAndJoin ==
  [][/\ (Handled("createItem") /\ resp'.status = 200)
          => IF InGroup(Requester(resp'.tok))
             THEN AppendedFor("added_item", Requester(resp'.tok),
                              users[Requester(resp'.tok)].familyGroupId)
             ELSE activities' = activities
     /\ (Handled("createGroup") /\ resp'.status = 200)
          => AppendedFor("created_group", Requester(resp'.tok), resp'.id)
     /\ (Handled("joinGroup") /\ resp'.status = 200)
          => AppendedFor("joined_group", Requester(resp'.tok), resp'.id)]_vars

\* the places <<entry, position>> of the listing at which item id occurs
Occurrences(listing, id) ==
  {<<e, j>> \in (DOMAIN listing.body) \X (1..Cardinality(DOMAIN wishlistItems)) :
     /\ j \in DOMAIN listing.body[e].items
     /\ listing.body[e].items[j].id = id}

\* the user belongs to group g by the record store
MemberOf(userId, g) == userId \in DOMAIN users /\ users[userId].familyGroupId = g

\* C16: when a user who belongs to a family group has created an item, GET
\* /api/wishlists/family issued by any member of that group contains the
\* item exactly once, in the entry of its owner, with canEdit true exactly
\* when the requester is the owner.
C16_CreatedItemListedOnce ==
  (resp.op = "createItem" /\ resp.status = 200)
  => LET item == wishlistItems[resp.id]
         g == users[item.userId].familyGroupId IN
       g # Null
       => \A t \in DOMAIN sessions :
            MemberOf(sessions[t].id, g)
            => LET listing == familyWishlists(t) IN
                 /\ listing.status = 200
                 /\ Cardinality(Occurrences(listing, item.id)) = 1
                 /\ \A o \in Occurrences(listing, item.id) :
                      /\ listing.body[o[1]].user = item.userId
                      /\ listing.body[o[1]].items[o[2]].canEdit
                           = (sessions[t].id = item.userId)

\* C17: the family listing shows every item with the reservation fields the
\* store holds, to every requester; and when B has reserved A's item, with A
\* in a family group, GET /api/wishlists/family for A shows the item with
\* isReserved = TRUE and reservedByUserId = B, and a reserve by A on it is
\* refused with 400.
C17_ListingShowsReservation ==
  /\ \A t \in DOMAIN sessions :
       \A i \in DOMAIN wishlistItems :
         \A o \in Occurrences(familyWishlists(t), wishlistItems[i].id) :
           LET shown == familyWishlists(t).body[o[1]].items[o[2]] IN
             ReservationFields(shown) = ReservationFields(wishlistItems[i])
  /\ (resp.op = "reserve" /\ resp.status = 200)
     => LET item == wishlistItems[resp.id]
            A == item.userId
            B == sessions[resp.tok].id IN
          InGroup(A)
          => /\ ReserveStatus(item, A) = 400
             /\ \A t \in DOMAIN sessions :
                  sessions[t].id = A
                  => LET listing == familyWishlists(t) IN
                       /\ listing.status = 200
                       /\ \E o \in Occurrences(listing, item.id) :
                            ReservationFields(listing.body[o[1]].items[o[2]])
                              = [isReserved |-> TRUE, reservedByUserId |-> B]

\* the routes behind requireAuth that have a handler action
ProtectedOps ==
  {"logout", "createGroup", "joinGroup", "createItem", "put", "delete",
   "reserve", "unreserve", "note"}

\* C18: a request that presents no token, or a token that is no key of the
\* session table, is answered 401 by every protected route and changes
\* neither the record store nor the session table.
C18_AnonymousIsRejected ==
  [][/\ \A op \in ProtectedOps :
          (Handled(op) /\ resp'.tok \notin DOMAIN sessions)
          => (resp'.status = 401 /\ UNCHANGED <<storeVars, sessVars>>)
     /\ \A t \in Presented \ DOMAIN sessions :
          /\ familyGroupsCurrent(t).status = 401
          /\ familyWishlists(t).status = 401]_vars

\* C18 witness: an anonymous DELETE of an existing item has just been
\* answered 401, and the item is still there.
C18_Witness ==
  /\ resp.op = "delete" /\ resp.status = 401
  /\ resp.tok \notin DOMAIN sessions
  /\ resp.id \in DOMAIN wishlistItems
  /\ DOMAIN sessions # {}

\* C19: once a logout request for token t has completed, t is no key of the
\* session table in any later state and a request presenting t is answered
\* 401, also when a create-group or join request on t was in flight while
\* the logout ran.
C19_LogoutRevokesToken ==
  \A t \in loggedOut :
    /\ t \notin DOMAIN sessions
    /\ familyGroupsCurrent(t).status = 401

\* C20: started empty and driven by the same IStorage operations with the
\* same arguments, MemStorage and DatabaseStorage return the same result from
\* every operation, getSecretNotes and the order of getWishlistItems and
\* getFamilyActivities included.
C20_StoresEquivalent == ret.mem = ret.db

\* GET /api/secret-notes/:itemId for a request with req.user.id = userId:
\* the bodies res.json can send, with MemStorage and with DatabaseStorage
\* behind the storage import
secretNotesBodies(itemId, userId) ==
  [mem |-> Listed(getSecretNotes(itemId, userId)),
   db |-> {o.result : o \in DatabaseStorage_getSecretNotes(itemId, userId)}]

\* the body holds exactly the notes of the table on this item by this author
ScopedTo(body, table, itemId, userId) ==
  Range(body.value)
    = {Shown(table[k]) : k \in {n \in DOMAIN table :
                                  /\ table[n].wishlistItemId = itemId
                                  /\ table[n].userId = userId}}

\* C21: GET /secret-notes/:itemId issued by user r returns exactly the notes
\* whose wishlistItemId is that item and whose userId is r, with either
\* store behind the route: nobody receives a note written by someone else.
C21_SecretNotesScoped ==
  \A i \in ItemIds, r \in UserIds :
    /\ ScopedTo(secretNotesBodies(i, r).mem, secretNotes, i, r)
    /\ \A body \in secretNotesBodies(i, r).db :
         ScopedTo(body, db.secretNotes, i, r)

\* the list holds no record twice
NoRepeat(q) == \A i, j \in DOMAIN q : q[i].id = q[j].id => i = j

\* no record of the list is older than a record after it
NewestFirstByCreatedAt(q) ==
  \A i, j \in DOMAIN q : i < j => q[i].createdAt >= q[j].createdAt

\* C22: getFamilyActivities(g, limit) returns only activities of group g,
\* newest first by creation timestamp, min(limit, all) of them, none of
\* those left out newer than one returned (limit 10 when none is given);
\* getWishlistItems(u) returns all and only the items owned by u, newest
\* first.
C22_ListingsNewestFirst ==
  /\ \A g \in GroupIds, limit \in {1, 2, DefaultLimit} :
       LET q == getFamilyActivities(g, limit)
           all == {a \in DOMAIN activities : activities[a].familyGroupId = g}
           got == {q[i].id : i \in DOMAIN q} IN
         /\ \A i \in DOMAIN q : q[i].id \in all /\ q[i] = activities[q[i].id]
         /\ NoRepeat(q)
         /\ Len(q) = IF limit < Cardinality(all) THEN limit ELSE Cardinality(all)
         /\ NewestFirstByCreatedAt(q)
         /\ \A a \in all \ got, i \in DOMAIN q :
              activities[a].createdAt <= q[i].createdAt
  /\ \A u \in UserIds :
       LET r == getWishlistItemsResult(u)
           own == {k \in DOMAIN wishlistItems : wishlistItems[k].userId = u} IN
         /\ r.ok
         /\ {r.value[i].id : i \in DOMAIN r.value} = own
         /\ \A i \in DOMAIN r.value : r.value[i] = wishlistItems[r.value[i].id]
         /\ NoRepeat(r.value)
         /\ NewestFirstByCreatedAt(r.value)

\* C23: no two users with a present email have the same email; a register
\* request is answered 400 exactly when its email was that of an existing
\* user, and then creates neither a user nor a session, also when register
\* requests with the same email are interleaved; a request without an email
\* is never rejected.
C23_EmailsUnique ==
  /\ \A u, v \in DOMAIN users :
       (users[u].email # NoEmail /\ users[u].email = users[v].email) => u = v
  /\ \A r \in DOMAIN reqs :
       reqs[r].pc = "done"
       => /\ reqs[r].status = 400 <=> reqs[r].existingUser # Null
          /\ reqs[r].status = 400 => (reqs[r].user = Null /\ reqs[r].tok = NoToken)
          /\ reqs[r].email = NoEmail => reqs[r].status = 200

\* every record of the collection is still there after the step, with the
\* same fields, but for the fields named in free
Kept(before, after, free) ==
  \A k \in DOMAIN before :
    /\ k \in DOMAIN after
    /\ \A f \in DOMAIN before[k] \ free : after[k][f] = before[k][f]
    /\ DOMAIN after[k] = DOMAIN before[k]

\* C24: users, family groups, activities and secret notes are append-only:
\* no step removes a record of these collections or changes a field of one,
\* except a user's familyGroupId; a wishlist item leaves the store only in a
\* step that answers a DELETE request for that item with 200.
C24_AppendOnly ==
  [][/\ Kept(users, users', {"familyGroupId"})
     /\ Kept(familyGroups, familyGroups', {})
     /\ Kept(activities, activities', {})
     /\ Kept(secretNotes, secretNotes', {})
     /\ \A i \in DOMAIN wishlistItems \ DOMAIN wishlistItems' :
          Handled("delete") /\ resp'.status = 200 /\ resp'.id = i]_vars

\* C24 witness: an item has just been deleted by a DELETE request, while the
\* store holds a user who changed group, an activity and a secret note.
C24_Witness ==
  /\ resp.op = "delete" /\ resp.status = 200
  /\ resp.id \notin DOMAIN wishlistItems
  /\ \E u \in DOMAIN users : users[u].familyGroupId # Null
  /\ DOMAIN activities # {}
  /\ \E n \in DOMAIN secretNotes : secretNotes[n].wishlistItemId = resp.id

\* the store operations on ids and codes the store does not hold: each
\* resolves to undefined (false for deleteWishlistItem) and leaves its
\* collection as it was
MissingIsNotFound ==
  /\ \A u \in UserIds \ DOMAIN users : Lookup(users, u) = Undefined
  /\ \A g \in (1..cap.groups) \ DOMAIN familyGroups :
       Lookup(familyGroups, getFamilyGroup(g)) = Undefined
  /\ \A c \in Codes :
       (\A g \in DOMAIN familyGroups : familyGroups[g].inviteCode # c)
       => Lookup(familyGroups, getFamilyGroupByInviteCode(c)) = Undefined
  /\ \A i \in ItemIds \ DOMAIN wishlistItems :
       /\ Lookup(wishlistItems, i) = Undefined
       /\ \A b \in Bodies :
            /\ updateWishlistItem(i, b) = wishlistItems
            /\ Lookup(updateWishlistItem(i, b), i) = Undefined
       /\ \A u \in UserIds :
            /\ reserveWishlistItem(i, u) = wishlistItems
            /\ Lookup(reserveWishlistItem(i, u), i) = Undefined
       /\ unreserveWishlistItem(i) = wishlistItems
       /\ Lookup(unreserveWishlistItem(i), i) = Undefined
       /\ deleteWishlistItem(i) = wishlistItems
       /\ Answered(i \in DOMAIN wishlistItems) = Answered(FALSE)

C26_SessionsAgreeWithStore ==
  \A t \in DOMAIN sessions :
    /\ sessions[t].id \in DOMAIN users
    /\ sessions[t].familyGroupId = users[sessions[t].id].familyGroupId

\* C27: a reservation never crosses family groups: a reserve request by user
\* r on item i is answered 200 only if r and the owner of i belong to the
\* same family group at that moment, and every reserved_item activity the
\* request appends is recorded in the family group of the item's owner.
C27_ReservationWithinGroup ==
  [][(Handled("reserve") /\ resp'.status = 200)
     => LET r == Requester(resp'.tok)
            owner == wishlistItems[resp'.id].userId IN
          /\ InGroup(r) /\ InGroup(owner)
          /\ users[r].familyGroupId = users[owner].familyGroupId
          /\ \A a \in DOMAIN activities' \ DOMAIN activities :
               activities'[a].action = "reserved_item"
               => activities'[a].familyGroupId = users[owner].familyGroupId]_vars

\* authState.user is non-null only if authState.sessionId is non-null
UserOnlyWithSession == authState.user # Null => authState.sessionId # NoToken

\* the sessionId kept in localStorage is authState.sessionId
StorageFollowsState == localStorage = authState.sessionId

\* call c is a checkAuth started with a session other than the one the
\* state holds now, which a login or register completed since has set
Overtaken(c) ==
  /\ reqs[c].op = "me"
  /\ authState.sessionId # NoToken
  /\ authState.sessionId # reqs[c].sessionId

\* C28: under every interleaving of login, register, logout and checkAuth
\* calls and every order of their responses, authState.user is non-null only
\* if authState.sessionId is non-null, localStorage holds authState.sessionId,
\* and a checkAuth started with an older session neither clears nor
\* overwrites the session a later login has established.
C28_ClientAuthConsistent ==
  /\ [](UserOnlyWithSession /\ StorageFollowsState)
  /\ [][\A c \in DOMAIN reqs :
          (Overtaken(c) /\ AuthCheckDone(c))
          => UNCHANGED <<authState, localStorage>>]_vars

\* the listeners subscribed at this moment: handed to subscribe, and the
\* function subscribe returned for them not called yet
Subscribed == {l \in DOMAIN subs : subs[l] = "on"}

\* one call per subscribed listener, in subscription order, with this state
CalledOnceEach(calls, state) ==
  calls = [i \in 1..Cardinality(Subscribed) |->
             [listener |-> InOrder(Subscribed)[i], state |-> state]]

\* C29: every change of the client auth state is broadcast: each listener
\* subscribed at that moment is called exactly once with the new state, in
\* subscription order; a listener whose unsubscribe function has been called
\* is never called again, and a second call of that function removes no
\* other listener.
C29_ChangesAreBroadcast ==
  [][/\ authState' # authState => CalledOnceEach(heard', authState')
     /\ \A i \in DOMAIN heard' : heard'[i].listener \in Subscribed
     /\ \A l \in DOMAIN subs :
          Unsubscribe(l)
          => /\ Range(authListeners') = Range(authListeners) \ {l}
             /\ subs[l] = "off" => authListeners' = authListeners]_vars

\* C29 witness: a login or register has just been broadcast to the second
\* listener alone: the first
\* listener is no longer subscribed and was not called.
C29_Witness ==
  /\ Len(subs) = 2 /\ subs[1] = "off" /\ subs[2] = "on"
  /\ authState.user # Null
  /\ heard = <<[listener |-> 2, state |-> authState]>>

\* every record of the collection is stored under its own id
KeysAreIds(m) == \A k \in DOMAIN m : m[k].id = k

\* the step adds records to the collection only under the id the counter
\* held, above every id handed out before, and the counter never goes back
FreshIds(before, after, counter, counterAfter) ==
  /\ counterAfter >= counter
  /\ \A k \in DOMAIN before : k < counter
  /\ \A k \in DOMAIN after \ DOMAIN before : k = counter /\ counterAfter = k + 1

\* C30: in the in-memory store every create operation assigns an id above
\* every id assigned before in its collection, also after deletions, and
\* in every state each key of users, familyGroups, wishlistItems, activities
\* and secretNotes maps to a record whose id field is that key, also after
\* item updates through PUT.
C30_IdsUniqueAndOwn ==
  /\ [](/\ KeysAreIds(users) /\ KeysAreIds(familyGroups)
        /\ KeysAreIds(wishlistItems) /\ KeysAreIds(activities)
        /\ KeysAreIds(secretNotes))
  /\ [][/\ FreshIds(users, users', currentUserId, currentUserId')
        /\ FreshIds(familyGroups, familyGroups', currentFamilyGroupId,
                    currentFamilyGroupId')
        /\ FreshIds(wishlistItems, wishlistItems', currentWishlistItemId,
                    currentWishlistItemId')
        /\ FreshIds(activities, activities', currentActivityId,
                    currentActivityId')
        /\ FreshIds(secretNotes, secretNotes', currentSecretNoteId,
                    currentSecretNoteId')]_vars

====
